---- MODULE Spec2Model ----
(***************************************************************************)
(* A model of the radicle-link protocol core:                              *)
(*   - the stream upgrade codec and negotiation (librad/src/net/upgrade.rs)*)
(*   - the storage rate limits (librad/src/net/protocol/state.rs)          *)
(*   - the comment thread of the tracker (radicle-tracker/src/thread.rs)   *)
(* Bytes are integers 0..255, times are whole seconds.                     *)
(***************************************************************************)
EXTENDS Integers, Sequences, FiniteSets, Bags, TLC

VARIABLES
    \* --- codec harness: one encode and/or decode call
    cpc,        \* "encode" | "decode" | "decoded" | "done"
    cjob,       \* what the harness was asked to do (input, never changes)
    cbuf,       \* the bytes handed to minicbor::decode
    cres,       \* the decode result, or NoResult
    cout,       \* what with_upgraded makes of that result, or NoResult
    \* --- one QUIC stream, initiator -> responder direction
    peer,       \* who writes: "initiator" (upgrade()) or "raw" (any peer)
    sid,        \* identity of the stream both calls are given
    wire,       \* bytes written and not yet read by the responder
    sent,       \* every byte written so far (history)
    closed,     \* "open" | "fin" | "reset": the writer's end of the stream
    \* --- upgrade(stream, tag)
    ipc,        \* "idle" | "writing" | "done"
    itag,       \* the tag type U passed to upgrade
    icbor,      \* minicbor::to_vec(&upgrade.into())
    ioff,       \* bytes of icbor that write_all has written
    ires,       \* Result<Upgraded<U, S>, Error<S>>, or NoResult
    rawMsg,     \* what a raw peer is going to write
    rawOff,     \* how much of rawMsg it has written
    napp,       \* application bytes written after the tag
    \* --- with_upgraded(incoming)
    rpc,        \* "idle" | "reading" | "done"
    rbuf,       \* the filled part of buf: [u8; UPGRADE_REQUEST_ENCODING_LEN]
    elapsed,    \* seconds since the timeout future was created
    rres,       \* Result<SomeUpgraded<S>, Error<S>>, or NoResult
    rdoneAt,    \* value of elapsed when with_upgraded completed (history)
    early4,     \* 4 bytes had arrived before the deadline (history)
    rread,      \* bytes read from the upgraded stream after dispatch
    \* --- Storage rate limits
    quota,      \* the StorageQuota given to Storage::new
    now,        \* seconds since the limiters were created (clock - start)
    errorsTat,  \* the bucket of limits.errors: when it is full again, 0 = never used
    wantsTat,   \* the map of limits.wants: recipient -> its bucket
    lastLim,    \* the last is_rate_limit_breached call and what it returned
    ncalls,     \* calls so far, per limit (history)
    nadmit,     \* calls that returned false so far, per limit (history)
    atZero,     \* calls made before any time passed, per limit (history)
    winAt,      \* start of the observed window of Errors checks (history)
    winN,       \* Errors checks admitted in the observed window (history)
    \* --- the wants limiter's key map beyond the recipients followed one by one
    peers,      \* the recipients whose checks are followed one by one
    crowd,      \* entries of all other recipients: a bag of InMemoryState
    plainTat,   \* the state a keyed limiter that never sweeps would hold (history)
    nfresh,     \* calls made for recipients never seen before (history)
    calling,    \* per thread: its Wants check under way, and what it saw
    \* --- clones of State / Storage
    handles,    \* clone -> the Arc pointers it holds, per limiter
    heap,       \* Arc pointer -> the limiter state it points to
    single,     \* the state one unshared instance would hold (history)
    hcalling,   \* per clone: its Wants check under way, and what it saw
    hlast,      \* the last check made through a clone and its outcome (history)
    \* --- State::open_stream
    conns,      \* peers the endpoint holds a connection for
    opc,        \* position of open_stream
    olog,       \* calls open_stream has made, in order (history)
    ohints,     \* the addr_hints open_stream was given
    \* --- State::tick
    tocks,      \* the tocks submitted to tick
    tnext,      \* index of the next tock the for loop takes
    trunning,   \* the tock whose handler is being awaited, 0 if none
    tlog,       \* handler starts and completions, in order (history)
    tstates,    \* the state handle each started handler received (history)
    \* --- Storage as broadcast::LocalStorage
    inner,      \* calls the wrapped storage has received, with its answers
    asked,      \* calls made on the Storage, in the order they began (history)
    served,     \* calls of the Storage that returned, in that order (history)
    \* --- radicle-tracker: one Thread and the program using it
    thread,     \* the Thread: _finger, root, main_thread
    tres,       \* the last operation called on the thread and its result
    \* --- open_stream called by several tasks on clones of one State
    tasks,      \* task -> position of its open_stream call
    elog        \* calls the tasks have made on endpoint, spawner and connection (history)

codecVars == <<cpc, cjob, cbuf, cres, cout>>
streamVars == <<peer, sid, wire, sent, closed>>
initiatorVars == <<ipc, itag, icbor, ioff, ires, rawMsg, rawOff, napp>>
responderVars == <<rpc, rbuf, elapsed, rres, rdoneAt, early4, rread>>
limitVars == <<quota, now, errorsTat, wantsTat, lastLim, ncalls, nadmit, atZero, winAt, winN>>
sweepVars == <<peers, crowd, plainTat, nfresh, calling>>
cloneVars == <<handles, heap, single, hlast, hcalling>>
openVars == <<conns, opc, olog, ohints>>
tickVars == <<tocks, tnext, trunning, tlog, tstates>>
storeVars == <<inner, asked, served>>
threadVars == <<thread, tres>>
raceVars == <<tasks, elog>>
restVars == <<storeVars, threadVars, raceVars>>
protoVars == <<cloneVars, openVars, tickVars, restVars>>
vars == <<codecVars, streamVars, initiatorVars, responderVars, limitVars,
          sweepVars, protoVars>>

NoResult == [none |-> TRUE]

(***************************************************************************)
(* Bounds of the model.                                                    *)
(***************************************************************************)
MaxBufLen == 4          \* longest arbitrary buffer handed to decode
MaxApp == 2             \* application bytes written after the tag
MaxElapsed == 25        \* the clock of with_upgraded stops here
MaxNow == 13            \* the limiter clock stops here
MaxErrorsCalls == 13    \* is_rate_limit_breached(Errors) calls in a run
MaxWantsCalls == 33     \* is_rate_limit_breached(Wants) calls in a run
MaxOverBurst == 2       \* Wants calls made beyond the burst of the quota
MaxFull == 2            \* seconds the clock runs on after the wants buckets are full
MaxFresh == 1           \* Wants calls for recipients never seen before
MaxClones == 1          \* clones made of a State
MaxCloneErrors == 11    \* Errors checks made through the clones
MaxCloneWants == 2      \* Wants checks made through the clones
MaxTocks == 3           \* tocks submitted to one tick call

(***************************************************************************)
(* upgrade.rs: constants and the UpgradeRequest enum.                      *)
(***************************************************************************)
RECV_UPGRADE_TIMEOUT_short == 23 - 1
RECV_UPGRADE_TIMEOUT == 23

UPGRADE_REQUEST_ENCODING_LEN == 4

UpgradeRequest == {"Gossip", "Git", "Membership", "Interrogation", "RequestPull"}

\* `*self as u8`: the #[repr(u8)] discriminants
\* (mutant: RequestPull = 20, which decode does not know)
as_u8_mismatch(req) ==
    CASE req = "Gossip" -> 0
      [] req = "Git" -> 1
      [] req = "Membership" -> 2
      [] req = "Interrogation" -> 3
      [] req = "RequestPull" -> 20
as_u8(req) ==
    CASE req = "Gossip" -> 0
      [] req = "Git" -> 1
      [] req = "Membership" -> 2
      [] req = "Interrogation" -> 3
      [] req = "RequestPull" -> 200

(***************************************************************************)
(* The minicbor Encoder calls that encode() makes (RFC 8949 heads).        *)
(***************************************************************************)
\* Encoder::array(len): major type 4, len < 24 in the initial byte
e_array(len) == <<128 + len>>

\* Encoder::u8(x): major type 0, one byte up to 0x17, else 0x18 then the byte
e_u8(x) == IF x <= 23 THEN <<x>> ELSE <<24, x>>

\* Encoder::end(): the break byte
e_end == <<255>>

\* impl Encode for UpgradeRequest, on the discriminant (mutant: always break)
encode_u8_always_end(up) == e_array(2) \o e_u8(0) \o e_u8(up) \o e_end
encode_u8(up) ==
    LET e == e_array(2) \o e_u8(0)
    IN  IF up \in 0..23 THEN e \o e_u8(up) \o e_end ELSE e \o e_u8(up)

encode(req) == encode_u8(as_u8(req))

(***************************************************************************)
(* The minicbor Decoder calls that decode() makes.  A decoder is the       *)
(* buffer b and a 1-based position p; a step returns the value and the     *)
(* next position, or the decode error.                                     *)
(***************************************************************************)
d_ok(v, p) == [ok |-> TRUE, val |-> v, pos |-> p, err |-> "-"]
d_err(e) == [ok |-> FALSE, val |-> 0, pos |-> 0, err |-> e]

\* big-endian value of the k bytes of b from position p
RECURSIVE be(_, _, _)
be(b, p, k) == IF k = 0 THEN 0 ELSE be(b, p, k - 1) * 256 + b[p + k - 1]

\* Decoder::read_slice(k) then read_uN
d_read(b, p, k) ==
    IF p + k - 1 > Len(b) THEN d_err("EndOfInput") ELSE d_ok(be(b, p, k), p + k)

\* Decoder::unsigned(info): the argument of a head with additional info
d_unsigned(b, p, info) ==
    IF info <= 23 THEN d_ok(info, p)
    ELSE IF info = 24 THEN d_read(b, p, 1)
    ELSE IF info = 25 THEN d_read(b, p, 2)
    ELSE IF info = 26 THEN d_read(b, p, 4)
    ELSE IF info = 27 THEN d_read(b, p, 8)
    ELSE d_err("TypeMismatch")

\* Decoder::u8(): an unsigned integer that fits 8 bits
d_u8(b, p) ==
    IF p > Len(b) THEN d_err("EndOfInput")
    ELSE IF b[p] > 27 THEN d_err("TypeMismatch")
    ELSE LET r == d_unsigned(b, p + 1, b[p])
         IN  IF r.ok /\ r.val > 255 THEN d_err("Overflow") ELSE r

\* Decoder::array(): Some(len), or None (here -1) for an indefinite array
d_array(b, p) ==
    IF p > Len(b) THEN d_err("EndOfInput")
    ELSE IF b[p] \div 32 # 4 THEN d_err("TypeMismatch")
    ELSE IF b[p] % 32 = 31 THEN d_ok(-1, p + 1)
    ELSE d_unsigned(b, p + 1, b[p] % 32)

Ok_req(req) == [ok |-> TRUE, req |-> req, err |-> "-", n |-> 0]
Err_decode(e, n) == [ok |-> FALSE, req |-> "-", err |-> e, n |-> n]

\* the inner match of decode, on the discriminator (mutant: 7 is accepted)
decode_variant_lenient(n) ==
    CASE n = 0 -> Ok_req("Gossip")
      [] n = 1 -> Ok_req("Git")
      [] n = 2 -> Ok_req("Membership")
      [] n = 3 -> Ok_req("Interrogation")
      [] n = 200 -> Ok_req("RequestPull")
      [] n = 7 -> Ok_req("Gossip")
      [] OTHER -> Err_decode("UnknownVariant", n)
decode_variant(n) ==
    CASE n = 0 -> Ok_req("Gossip")
      [] n = 1 -> Ok_req("Git")
      [] n = 2 -> Ok_req("Membership")
      [] n = 3 -> Ok_req("Interrogation")
      [] n = 200 -> Ok_req("RequestPull")
      [] OTHER -> Err_decode("UnknownVariant", n)

\* the outer match of decode, on the version (mutant: the version is ignored)
decode_version_ignored(b, v) == 
    LET n == d_u8(b, v.pos)
    IN  IF ~n.ok THEN Err_decode(n.err, 0) ELSE decode_variant(n.val)
decode_version(b, v) ==
    IF v.val = 0
    THEN LET n == d_u8(b, v.pos)
         IN  IF ~n.ok THEN Err_decode(n.err, 0) ELSE decode_variant(n.val)
    ELSE Err_decode("UnknownVariant", v.val)

\* impl Decode for UpgradeRequest, as called by minicbor::decode(&buf)
decode(b) ==
    LET a == d_array(b, 1)
    IN  IF ~a.ok THEN Err_decode(a.err, 0)
        ELSE IF a.val # 2 THEN Err_decode("Message", 0)
        ELSE LET v == d_u8(b, a.pos)
             IN  IF ~v.ok THEN Err_decode(v.err, 0) ELSE decode_version(b, v)

(***************************************************************************)
(* upgrade.rs: streams, results, upgrade() and with_upgraded().            *)
(***************************************************************************)
\* the two ends of the stream with identity id
InitiatorEnd(id) == [id |-> id, end |-> "initiator"]
ResponderEnd(id) == [id |-> id, end |-> "responder"]
NoStream == [id |-> 0, end |-> "dropped"]

\* the unit structs Gossip, Git, ... given to upgrade() as U
UpgradeTypes ==
    {[struct |-> n] : n \in {"Gossip", "Git", "Membership", "Interrogation", "RequestPull"}}

\* impl From<U> for UpgradeRequest
from(U) ==
    CASE U.struct = "Gossip" -> "Gossip"
      [] U.struct = "Git" -> "Git"
      [] U.struct = "Membership" -> "Membership"
      [] U.struct = "Interrogation" -> "Interrogation"
      [] U.struct = "RequestPull" -> "RequestPull"

\* enum ErrorSource
Timeout == [kind |-> "Timeout", err |-> "-", n |-> 0]
Decode(e) == [kind |-> "Decode", err |-> e.err, n |-> e.n]
Io(e) == [kind |-> "Io", err |-> e, n |-> 0]
NoSource == [kind |-> "-", err |-> "-", n |-> 0]

\* Ok(..) and Err(Error { stream, source }) of both functions
Ok(tag, stream) == [ok |-> TRUE, tag |-> tag, stream |-> stream, source |-> NoSource]
Err(stream, source) == [ok |-> FALSE, tag |-> "-", stream |-> stream, source |-> source]

\* what the `send` / `recv` async blocks resolve to
Sent == [ok |-> TRUE, req |-> "-", source |-> NoSource]
Received(req) == [ok |-> TRUE, req |-> req, source |-> NoSource]
Failed(source) == [ok |-> FALSE, req |-> "-", source |-> source]

\* upgrade(): `match send.await`
upgrade_match(stream, U, send) ==
    IF ~send.ok THEN Err(stream, send.source) ELSE Ok(U.struct, stream)

\* upgrade(): write_all has returned once every byte of cbor is written
\* (mutant: the initiator also waits for the responder to have dispatched)
send_done_after_response(off, cbor) == off = Len(cbor) /\ rpc = "done"
send_done(off, cbor) == off = Len(cbor)

\* with_upgraded(): the SomeUpgraded variant built for a request
\* (mutant: two arms of the match are swapped)
SomeUpgraded_swapped(req) ==
    CASE req = "Gossip" -> "Gossip"
      [] req = "Git" -> "Git"
      [] req = "Membership" -> "Interrogation"
      [] req = "Interrogation" -> "Membership"
      [] req = "RequestPull" -> "RequestPull"
SomeUpgraded(req) ==
    CASE req = "Gossip" -> "Gossip"
      [] req = "Git" -> "Git"
      [] req = "Membership" -> "Membership"
      [] req = "Interrogation" -> "Interrogation"
      [] req = "RequestPull" -> "RequestPull"

\* with_upgraded(): `match recv.await` (mutant: the error drops the stream)
with_upgraded_match_drops(incoming, recv) ==
    IF ~recv.ok THEN Err(NoStream, recv.source)
    ELSE Ok(SomeUpgraded(recv.req), incoming)
with_upgraded_match(incoming, recv) ==
    IF ~recv.ok THEN Err(incoming, recv.source)
    ELSE Ok(SomeUpgraded(recv.req), incoming)

\* `Ok(minicbor::decode(&buf)?)` of the recv block: `?` turns the decode
\* error into ErrorSource::Decode
recv_result(d) == IF d.ok THEN Received(d.req) ELSE Failed(Decode(d))
recv_decode(buf) == recv_result(decode(buf))

Min(a, b) == IF a < b THEN a ELSE b

\* one poll of incoming.read_exact(&mut buf): take what the stream holds, up
\* to the free part of buf.  "ok" once buf is full, "err" on a transport
\* error or when the stream ended first, else "pending".
read_exact(buf, avail, end) ==
    LET n == Min(Len(avail), UPGRADE_REQUEST_ENCODING_LEN - Len(buf))
        got == buf \o SubSeq(avail, 1, n)
        rest == SubSeq(avail, n + 1, Len(avail))
    IN  IF end = "reset"
        THEN [st |-> "err", buf |-> buf, rest |-> avail, err |-> "ConnectionReset"]
        ELSE IF Len(got) = UPGRADE_REQUEST_ENCODING_LEN
        THEN [st |-> "ok", buf |-> got, rest |-> rest, err |-> "-"]
        ELSE IF end = "fin"
        THEN [st |-> "err", buf |-> got, rest |-> rest, err |-> "UnexpectedEof"]
        ELSE [st |-> "pending", buf |-> got, rest |-> rest, err |-> "-"]

\* link_async::timeout(d, fut), polled when `el` seconds have passed: the
\* future's own outcome if it has one, else Elapsed once the deadline is due
\* (mutant: the deadline is looked at first)
timeout_deadline_first(d, el, fut) ==
    IF el >= d THEN "elapsed" ELSE fut
timeout(d, el, fut) ==
    IF fut # "pending" THEN fut
    ELSE IF el >= d THEN "elapsed" ELSE "pending"

(***************************************************************************)
(* Codec harness: encode and decode as pure functions of bounded inputs.   *)
(***************************************************************************)
\* byte values the arbitrary buffers are drawn from
CodecBytes == {0, 1, 2, 3, 7, 24, 25, 129, 130, 152, 200, 255}
\* versions and discriminators of the well-formed two-element arrays
U8Samples == {0, 1, 2, 3, 4, 7, 23, 24, 25, 199, 200, 201, 255}

ByteSeqs(S, n) == UNION {[1..k -> S] : k \in 0..n}

CodecJobs ==
    [kind : {"tag"}, req : UpgradeRequest, v : {0}, n : {0}, brk : {FALSE}]
    \cup [kind : {"array2"}, req : {"-"}, v : U8Samples, n : U8Samples, brk : BOOLEAN]
    \cup [kind : {"bytes"}, req : {"-"}, v : {0}, n : {0}, brk : {FALSE}]

\* a two-element array [v, n], as any CBOR encoder writes it
array2(v, n, brk) ==
    e_array(2) \o e_u8(v) \o e_u8(n) \o (IF brk THEN e_end ELSE <<>>)

CodecInit ==
    /\ cjob \in CodecJobs
    /\ cres = NoResult
    /\ cout = NoResult
    /\ \/ cjob.kind = "tag" /\ cpc = "encode" /\ cbuf = <<>>
       \/ cjob.kind = "array2" /\ cpc = "decode"
          /\ cbuf = array2(cjob.v, cjob.n, cjob.brk)
       \/ cjob.kind = "bytes" /\ cpc = "decode"
          /\ cbuf \in ByteSeqs(CodecBytes, MaxBufLen)

\* minicbor::to_vec(&req)
CodecEncode ==
    /\ cpc = "encode"
    /\ cbuf' = encode(cjob.req)
    /\ cpc' = "decode"
    /\ UNCHANGED <<cjob, cres, cout>>
    /\ UNCHANGED <<streamVars, initiatorVars, responderVars, limitVars>>
    /\ UNCHANGED <<sweepVars, protoVars>>

\* minicbor::decode(&buf)
CodecDecode ==
    /\ cpc = "decode"
    /\ cres' = decode(cbuf)
    /\ cpc' = "decoded"
    /\ UNCHANGED <<cjob, cbuf, cout>>
    /\ UNCHANGED <<streamVars, initiatorVars, responderVars, limitVars>>
    /\ UNCHANGED <<sweepVars, protoVars>>

\* with_upgraded's dispatch on a buffer of UPGRADE_REQUEST_ENCODING_LEN bytes
CodecDispatch ==
    /\ cpc = "decoded"
    /\ Len(cbuf) = UPGRADE_REQUEST_ENCODING_LEN
    /\ cout' = with_upgraded_match(ResponderEnd(1), recv_result(cres))
    /\ cpc' = "done"
    /\ UNCHANGED <<cjob, cbuf, cres>>
    /\ UNCHANGED <<streamVars, initiatorVars, responderVars, limitVars>>
    /\ UNCHANGED <<sweepVars, protoVars>>


(***************************************************************************)
(* The stream and the two ends of the negotiation.                         *)
(***************************************************************************)
StreamIds == {1, 2}
\* application bytes written after the tag
AppBytes == {5, 130}
\* what a peer that is not this implementation may write first
RawMsgs ==
    { <<>>, <<130, 0>>, <<130, 0, 2, 255>>, <<130, 0, 24, 200>>,
      <<130, 0, 7, 255>>, <<130, 1, 0, 255>>, <<129, 0, 0, 255>> }

\* the writer has put the first bytes on the stream and may send its data
HeaderWritten ==
    \/ peer = "initiator" /\ ipc = "done" /\ ires.ok
    \/ peer = "raw" /\ rawOff = Len(rawMsg)

\* the receive deadline of with_upgraded is still ahead
BeforeDeadline == rpc = "idle" \/ (rpc = "reading" /\ elapsed < RECV_UPGRADE_TIMEOUT)

\* bytes bs enter the stream
Write(bs) ==
    /\ wire' = wire \o bs
    /\ sent' = sent \o bs
    /\ early4' = (early4 \/ (Len(sent \o bs) >= UPGRADE_REQUEST_ENCODING_LEN
                             /\ BeforeDeadline))

StreamInit ==
    /\ peer \in {"initiator", "raw"}
    /\ sid \in StreamIds
    /\ wire = <<>> /\ sent = <<>> /\ closed = "open"
    /\ ipc = "idle" /\ itag = [struct |-> "-"] /\ icbor = <<>> /\ ioff = 0
    /\ ires = NoResult
    /\ rawMsg \in (IF peer = "raw" THEN RawMsgs ELSE {<<>>})
    /\ rawOff = 0 /\ napp = 0
    /\ rpc = "idle" /\ rbuf = <<>> /\ elapsed = 0 /\ rres = NoResult
    /\ rdoneAt = 0 /\ early4 = FALSE /\ rread = <<>>

\* upgrade(stream, U): `minicbor::to_vec(&upgrade.into())`
UpgradeCall ==
    /\ peer = "initiator" /\ ipc = "idle"
    /\ \E U \in UpgradeTypes :
        /\ itag' = U
        /\ icbor' = encode(from(U))
    /\ ioff' = 0
    /\ ipc' = "writing"
    /\ UNCHANGED <<ires, rawMsg, rawOff, napp>>
    /\ UNCHANGED <<streamVars, responderVars>>
    /\ UNCHANGED <<codecVars, limitVars, sweepVars, protoVars>>

\* upgrade(): one poll_write of `stream.write_all(&cbor)` accepting k bytes;
\* with the last byte written send resolves and upgrade returns Ok
UpgradeWrite ==
    /\ ipc = "writing" /\ closed = "open"
    /\ \E k \in 1..(Len(icbor) - ioff) :
        /\ Write(SubSeq(icbor, ioff + 1, ioff + k))
        /\ ioff' = ioff + k
        /\ IF send_done(ioff + k, icbor)
           THEN /\ ipc' = "done"
                /\ ires' = upgrade_match(InitiatorEnd(sid), itag, Sent)
           ELSE UNCHANGED <<ipc, ires>>
    /\ UNCHANGED <<peer, sid, closed, itag, icbor, rawMsg, rawOff, napp>>
    /\ UNCHANGED <<rpc, rbuf, elapsed, rres, rdoneAt, rread>>
    /\ UNCHANGED <<codecVars, limitVars, sweepVars, protoVars>>

\* upgrade(): poll_write fails; the transport is gone for both ends
UpgradeWriteFails ==
    /\ ipc = "writing" /\ closed = "open"
    /\ ipc' = "done"
    /\ ires' = upgrade_match(InitiatorEnd(sid), itag, Failed(Io("BrokenPipe")))
    /\ closed' = "reset"
    /\ UNCHANGED <<peer, sid, wire, sent, itag, icbor, ioff, rawMsg, rawOff, napp>>
    /\ UNCHANGED responderVars
    /\ UNCHANGED <<codecVars, limitVars, sweepVars, protoVars>>

\* a peer that is not this implementation writes the next byte of its message
RawWrite ==
    /\ peer = "raw" /\ closed = "open" /\ rawOff < Len(rawMsg)
    /\ Write(<<rawMsg[rawOff + 1]>>)
    /\ rawOff' = rawOff + 1
    /\ UNCHANGED <<peer, sid, closed, ipc, itag, icbor, ioff, ires, rawMsg, napp>>
    /\ UNCHANGED <<rpc, rbuf, elapsed, rres, rdoneAt, rread>>
    /\ UNCHANGED <<codecVars, limitVars, sweepVars, protoVars>>

\* the writer sends application data through the (upgraded) stream:
\* Upgraded::poll_write hands the bytes to the stream as they are
AppWrite ==
    /\ HeaderWritten /\ closed = "open" /\ napp < MaxApp
    /\ \E b \in AppBytes : Write(<<b>>)
    /\ napp' = napp + 1
    /\ UNCHANGED <<peer, sid, closed, ipc, itag, icbor, ioff, ires, rawMsg, rawOff>>
    /\ UNCHANGED <<rpc, rbuf, elapsed, rres, rdoneAt, rread>>
    /\ UNCHANGED <<codecVars, limitVars, sweepVars, protoVars>>

\* the writer finishes the stream ("fin") or the transport fails ("reset")
WriterEnds ==
    /\ closed = "open"
    /\ \/ peer = "raw"
       \/ peer = "initiator" /\ ipc = "done"
    /\ closed' \in {"fin", "reset"}
    /\ UNCHANGED <<peer, sid, wire, sent>>
    /\ UNCHANGED <<initiatorVars, responderVars>>
    /\ UNCHANGED <<codecVars, limitVars, sweepVars, protoVars>>

\* with_upgraded(incoming): the timeout future is created
WithUpgradedCall ==
    /\ rpc = "idle"
    /\ rpc' = "reading"
    /\ elapsed' = 0
    /\ UNCHANGED <<rbuf, rres, rdoneAt, early4, rread>>
    /\ UNCHANGED <<streamVars, initiatorVars>>
    /\ UNCHANGED <<codecVars, limitVars, sweepVars, protoVars>>

\* a second passes while with_upgraded is waiting
Tick ==
    /\ rpc = "reading" /\ elapsed < MaxElapsed
    /\ elapsed' = elapsed + 1
    /\ UNCHANGED <<rpc, rbuf, rres, rdoneAt, early4, rread>>
    /\ UNCHANGED <<streamVars, initiatorVars>>
    /\ UNCHANGED <<codecVars, limitVars, sweepVars, protoVars>>

\* with_upgraded(): one poll of `recv`, up to the result when it resolves
WithUpgradedPoll ==
    /\ rpc = "reading"
    /\ LET r == read_exact(rbuf, wire, closed)
           t == timeout(RECV_UPGRADE_TIMEOUT, elapsed, r.st)
           recv == CASE t = "ok" -> recv_decode(r.buf)
                     [] t = "err" -> Failed(Io(r.err))
                     [] t = "elapsed" -> Failed(Timeout)
                     [] OTHER -> Sent
       IN  /\ rbuf' = r.buf
           /\ wire' = r.rest
           /\ IF t = "pending"
              THEN UNCHANGED <<rpc, rres, rdoneAt>>
              ELSE /\ rpc' = "done"
                   /\ rres' = with_upgraded_match(ResponderEnd(sid), recv)
                   /\ rdoneAt' = elapsed
    /\ UNCHANGED <<peer, sid, sent, closed, elapsed, early4, rread>>
    /\ UNCHANGED initiatorVars
    /\ UNCHANGED <<codecVars, limitVars, sweepVars, protoVars>>

\* the handler reads from the upgraded stream: Upgraded::poll_read hands the
\* read to the stream as it is
UpgradedRead ==
    /\ rpc = "done" /\ rres.ok /\ wire # <<>> /\ closed # "reset"
    /\ \E k \in {1, Len(wire)} :
        /\ rread' = rread \o SubSeq(wire, 1, k)
        /\ wire' = SubSeq(wire, k + 1, Len(wire))
    /\ UNCHANGED <<peer, sid, sent, closed, rpc, rbuf, elapsed, rres, rdoneAt, early4>>
    /\ UNCHANGED initiatorVars
    /\ UNCHANGED <<codecVars, limitVars, sweepVars, protoVars>>

(***************************************************************************)
(* state.rs: quotas, limiters and Storage::is_rate_limit_breached.         *)
(* The limiters themselves are governor's, which is not part of the       *)
(* sources: they are token buckets as the specification describes them    *)
(* (4.3, 8): a bucket holds up to burst tokens, a check takes one token   *)
(* or is refused, and one token comes back per interval.  A bucket is     *)
(* kept as the time at which it will be full again, 0 for a bucket never  *)
(* used, so that every time not after now stands for a full bucket.       *)
(***************************************************************************)
WANTS_SWEEP_THRESHOLD == 8192

\* governor::Quota::per_minute(n): one token per 60/n seconds, burst n
per_minute(n) == [replenish_1_per |-> 60 \div n, max_burst |-> n]

\* impl Default for StorageQuota (mutant: wants allows 31)
StorageQuota_default_wants31 == [errors |-> per_minute(10), wants |-> per_minute(31)]
StorageQuota_default == [errors |-> per_minute(10), wants |-> per_minute(30)]

\* the bucket of a quota: t is the interval of one token; a check is
\* admitted while the bucket is no more than tau away from being full, that
\* is, while fewer than burst tokens are missing
Gcra(q) == [t |-> q.replenish_1_per, tau |-> q.replenish_1_per * (q.max_burst - 1)]

Max(a, b) == IF a > b THEN a ELSE b

\* one check of a bucket at time t0: whether a token is there, and the
\* bucket after it (a token taken puts the full time one interval further)
test_and_update(g, stored, t0) ==
    LET tat == Max(stored, t0)
    IN  IF tat - t0 > g.tau
        THEN [is_err |-> TRUE, next |-> stored]
        ELSE [is_err |-> FALSE, next |-> tat + g.t]

\* what retain_recent would do if it dropped every key (mutant)
retain_recent_all(m, t0) == << >>

\* RateLimiter::retain_recent: keys whose state is not older than now stay
retain_recent(m, t0) == [k \in {j \in DOMAIN m : ~(m[j] <= t0)} |-> m[k]]

\* what the lookup would give if the key were ignored (mutant: every
\* recipient is checked against the same bucket)
entry_of_any(m, k) == IF DOMAIN m = {} THEN 0 ELSE m[CHOOSE j \in DOMAIN m : TRUE]

\* the keyed state store: the entry of key k, created empty on first touch
entry(m, k) == IF k \in DOMAIN m THEN m[k] ELSE 0
insert(m, k, v) == [j \in DOMAIN m \cup {k} |-> IF j = k THEN v ELSE m[j]]

\* is_rate_limit_breached: the value returned for the check's outcome
\* (mutant: the sense of the result is inverted)
breached_inverted(check) == ~check.is_err
breached(check) == check.is_err

Recipients == {"P", "Q"}
\* any recipient that has no entry in the wants limiter yet
NewRecipient == "N"
Limits == {"Errors"} \cup Recipients

\* RateLimiter::len of the wants limiter
len(m, c) == Cardinality(DOMAIN m) + BagCardinality(c)

\* RateLimiter::retain_recent on the entries kept as a bag
retain_recent_bag(c, t0) == [s \in {u \in DOMAIN c : ~(u <= t0)} |-> c[s]]

\* entries the clock has caught up with: their bucket is full again
stale(m, c, t0) ==
    Cardinality({k \in DOMAIN m : m[k] <= t0})
        + BagCardinality([s \in {u \in DOMAIN c : u <= t0} |-> c[s]])

\* the sweep of is_rate_limit_breached (mutant: the limiter is never swept)
sweep_never(m, c) == FALSE
sweep(m, c) == len(m, c) > WANTS_SWEEP_THRESHOLD

\* the threads that call is_rate_limit_breached on the one Storage
Threads == {"A", "B"}

\* a thread that is not inside a Wants check
NotCalling == [pc |-> "idle", recipient |-> "-", len |-> 0, stale |-> 0, swept |-> FALSE]

NoCall == [lim |-> "-", recipient |-> "-", breached |-> FALSE, at |-> 0,
           len |-> 0, stale |-> 0, swept |-> FALSE, after |-> 0, plain |-> FALSE]

LimitsInit ==
    /\ quota = StorageQuota_default
    /\ now = 0
    /\ errorsTat = 0
    /\ wantsTat = << >>
    /\ lastLim = NoCall
    /\ ncalls = [k \in Limits |-> 0]
    /\ nadmit = [k \in Limits |-> 0]
    /\ atZero = [k \in Limits |-> 0]
    /\ winAt = 0 /\ winN = 0

\* no recipient but P asks, and no other entry is in the wants limiter
SweepIdle ==
    /\ peers = {"P"}
    /\ crowd = EmptyBag
    /\ plainTat = << >>
    /\ nfresh = 0
    /\ calling = [thread_id \in Threads |-> NotCalling]

\* the Wants checks under way for a recipient
Underway(recipient) ==
    Cardinality({ thread_id \in Threads : /\ calling[thread_id].pc # "idle"
                                          /\ calling[thread_id].recipient = recipient })

\* the Wants checks made in the run, those under way included
RECURSIVE Sum(_, _)
Sum(f, S) == IF S = {} THEN 0
             ELSE LET x == CHOOSE y \in S : TRUE IN f[x] + Sum(f, S \ {x})
WantsCalls ==
    Sum(ncalls, Recipients) + nfresh
        + Cardinality({ thread_id \in Threads : calling[thread_id].pc # "idle" })

\* history of one call on limit k that returned b
Called(k, b) ==
    /\ ncalls' = [ncalls EXCEPT ![k] = @ + 1]
    /\ nadmit' = [nadmit EXCEPT ![k] = IF b THEN @ ELSE @ + 1]
    /\ atZero' = [atZero EXCEPT ![k] = IF now = 0 THEN @ + 1 ELSE @]

\* is_rate_limit_breached(Limit::Errors); an observer counts the admitted
\* checks of a window that it may start anew at any call
is_rate_limit_breached_Errors ==
    /\ ncalls["Errors"] < MaxErrorsCalls
    /\ LET c == test_and_update(Gcra(quota.errors), errorsTat, now)
       IN  /\ errorsTat' = c.next
           /\ lastLim' = [NoCall EXCEPT !.lim = "Errors", !.breached = breached(c),
                                        !.at = now, !.plain = breached(c)]
           /\ Called("Errors", breached(c))
           /\ \E anew \in BOOLEAN :
               /\ winAt' = IF anew THEN now ELSE winAt
               /\ winN' = (IF anew THEN 0 ELSE winN) + (IF breached(c) THEN 0 ELSE 1)
    /\ UNCHANGED <<quota, now, wantsTat>>
    /\ UNCHANGED <<codecVars, streamVars, initiatorVars, responderVars>>
    /\ UNCHANGED <<sweepVars, protoVars>>

\* is_rate_limit_breached(Limit::Wants { recipient }), for a recipient that
\* is followed or for one that has no entry yet, called by a thread: the
\* thread reads self.limits.wants.len() and compares it with the threshold.
\* The limiter is shared through an Arc and nothing is locked across the
\* three calls made on it, so other threads run between them.
is_rate_limit_breached_Wants ==
    \E thread_id \in Threads, recipient \in peers :
        /\ calling[thread_id] = NotCalling
        /\ WantsCalls < MaxWantsCalls
        /\ WantsCalls < quota.wants.max_burst + MaxOverBurst
        /\ recipient = NewRecipient => nfresh + Underway(recipient) < MaxFresh
        /\ LET sw == sweep(wantsTat, crowd)
           IN  calling' = [calling EXCEPT ![thread_id] =
                   [pc |-> IF sw THEN "retain_recent" ELSE "check_key",
                    recipient |-> recipient,
                    len |-> len(wantsTat, crowd),
                    stale |-> stale(wantsTat, crowd, now),
                    swept |-> sw]]
        /\ UNCHANGED <<peers, crowd, plainTat, nfresh>>
        /\ UNCHANGED limitVars
    /\ UNCHANGED <<codecVars, streamVars, initiatorVars, responderVars>>
    /\ UNCHANGED protoVars

\* the thread that found the limiter oversize calls
\* self.limits.wants.retain_recent()
is_rate_limit_breached_Wants_retain_recent ==
    \E thread_id \in Threads :
        /\ calling[thread_id].pc = "retain_recent"
        /\ wantsTat' = retain_recent(wantsTat, now)
        /\ crowd' = retain_recent_bag(crowd, now)
        /\ calling' = [calling EXCEPT ![thread_id].pc = "check_key"]
        /\ UNCHANGED <<peers, plainTat, nfresh>>
        /\ UNCHANGED <<quota, now, errorsTat, lastLim, ncalls, nadmit, atZero, winAt, winN>>
    /\ UNCHANGED <<codecVars, streamVars, initiatorVars, responderVars>>
    /\ UNCHANGED protoVars

\* the thread calls self.limits.wants.check_key(recipient) and returns
\* whether it is an error
is_rate_limit_breached_Wants_check_key ==
    \E thread_id \in Threads :
        /\ calling[thread_id].pc = "check_key"
        /\ LET recipient == calling[thread_id].recipient
               c == test_and_update(Gcra(quota.wants), entry(wantsTat, recipient), now)
               p == test_and_update(Gcra(quota.wants),
                                    IF recipient \in DOMAIN plainTat
                                    THEN plainTat[recipient] ELSE 0, now)
               named == recipient # NewRecipient
               m == IF named THEN insert(wantsTat, recipient, c.next) ELSE wantsTat
               b == IF named THEN crowd ELSE crowd (+) SetToBag({c.next})
           IN  /\ wantsTat' = m
               /\ crowd' = b
               /\ plainTat' = IF named THEN insert(plainTat, recipient, p.next)
                              ELSE plainTat
               /\ lastLim' = [lim |-> "Wants", recipient |-> recipient,
                              breached |-> breached(c), at |-> now,
                              len |-> calling[thread_id].len,
                              stale |-> calling[thread_id].stale,
                              swept |-> calling[thread_id].swept,
                              after |-> len(m, b),
                              plain |-> breached(p)]
               /\ IF named
                  THEN Called(recipient, breached(c)) /\ UNCHANGED nfresh
                  ELSE nfresh' = nfresh + 1 /\ UNCHANGED <<ncalls, nadmit, atZero>>
        /\ calling' = [calling EXCEPT ![thread_id] = NotCalling]
        /\ UNCHANGED <<quota, now, errorsTat, winAt, winN, peers>>
    /\ UNCHANGED <<codecVars, streamVars, initiatorVars, responderVars>>
    /\ UNCHANGED protoVars

\* a second passes; the clock stops at MaxNow, or when the wants buckets
\* have been full for MaxFull seconds
LimitsTick ==
    /\ now < MaxNow
    /\ now < Gcra(quota.wants).tau + MaxFull
    /\ now' = now + 1
    /\ UNCHANGED <<quota, errorsTat, wantsTat, lastLim, ncalls, nadmit, atZero, winAt, winN>>
    /\ UNCHANGED <<codecVars, streamVars, initiatorVars, responderVars>>
    /\ UNCHANGED <<sweepVars, protoVars>>

\* governor::Quota::per_second(n), for n = 1
per_second(n) == [replenish_1_per |-> 1 \div n, max_burst |-> n]

\* a quota a Storage may be created with, next to the default: one want
\* per second and recipient
KeyedQuotas ==
    { [errors |-> per_minute(10), wants |-> per_second(1)] }

\* the wants limiter after n recipients made one check each at time 0
Crowd(q, n) ==
    IF n = 0 THEN EmptyBag
    ELSE [s \in {test_and_update(Gcra(q), 0, 0).next} |-> n]

CrowdSizes == {0, WANTS_SWEEP_THRESHOLD}

\* a Storage with a small quota whose wants limiter holds a crowd already
KeyedInit ==
    /\ quota \in KeyedQuotas
    /\ now = 0
    /\ errorsTat = 0
    /\ wantsTat = << >>
    /\ lastLim = NoCall
    /\ ncalls = [k \in Limits |-> 0]
    /\ nadmit = [k \in Limits |-> 0]
    /\ atZero = [k \in Limits |-> 0]
    /\ winAt = 0 /\ winN = 0
    /\ peers = Recipients \cup {NewRecipient}
    /\ crowd \in {Crowd(quota.wants, n) : n \in CrowdSizes}
    /\ plainTat = << >>
    /\ nfresh = 0
    /\ calling = [thread_id \in Threads |-> NotCalling]

(***************************************************************************)
(* state.rs: State, Storage and RateLimits are Clone; their limiters are   *)
(* held in Arcs.                                                           *)
(***************************************************************************)
\* the limiters a State holds: Storage.limits.errors, Storage.limits.wants,
\* RateLimits.membership
LimiterFields == {"errors", "wants", "membership"}

\* Storage::new / the construction of RateLimits: each limiter in a new Arc
\* A keyed limiter's state is its map of named recipients and the bag of
\* the entries of all other recipients.
Storage_new == [errors |-> 1, wants |-> 2, membership |-> 3]
Keyed(m, c) == [m |-> m, c |-> c]
Heap_new == [ptr \in {1, 2, 3} |-> IF ptr = 2 THEN Keyed(<< >>, EmptyBag) ELSE 0]

\* #[derive(Clone)] on State, Storage, StorageLimits, RateLimits: Arc::clone
\* of every limiter (mutant: the limiters themselves are copied)
clone_deep(h, hp) ==
    LET top == Cardinality(DOMAIN hp)
        fresh == [errors |-> top + 1, wants |-> top + 2, membership |-> top + 3]
    IN  [handle |-> fresh,
         heap |-> [ptr \in DOMAIN hp \cup {top + 1, top + 2, top + 3} |->
                     CASE ptr = top + 1 -> hp[h.errors]
                       [] ptr = top + 2 -> hp[h.wants]
                       [] ptr = top + 3 -> hp[h.membership]
                       [] OTHER -> hp[ptr]]]
clone(h, hp) == [handle |-> h, heap |-> hp]

NoCheck == [h |-> 0, first |-> 0, lim |-> "-", breached |-> FALSE,
            alone |-> FALSE, errors |-> 0, wants |-> 0, at |-> 0, len |-> 0]

CloneInit ==
    /\ handles = <<Storage_new>>
    /\ heap = Heap_new
    /\ single = [errors |-> 0, wants |-> Keyed(<< >>, EmptyBag)]
    /\ hlast = NoCheck
    /\ hcalling = <<NotCalling>>

\* a State whose wants limiter holds a crowd already, before it is cloned
CrowdedInit ==
    /\ handles = <<Storage_new>>
    /\ \E held \in {Keyed(<< >>, Crowd(quota.wants, n)) : n \in {0, WANTS_SWEEP_THRESHOLD + 1}} :
          /\ heap = [Heap_new EXCEPT ![Storage_new.wants] = held]
          /\ single = [errors |-> 0, wants |-> held]
    /\ hlast = NoCheck
    /\ hcalling = <<NotCalling>>

\* state.clone()
State_clone ==
    /\ Len(handles) < MaxClones + 1
    /\ \E h \in DOMAIN handles :
        LET c == clone(handles[h], heap)
        IN  /\ handles' = Append(handles, c.handle)
            /\ heap' = c.heap
    /\ hcalling' = Append(hcalling, NotCalling)
    /\ UNCHANGED <<single, hlast>>
    /\ UNCHANGED <<codecVars, streamVars, initiatorVars, responderVars>>
    /\ UNCHANGED <<limitVars, sweepVars, openVars, tickVars, restVars>>

\* the Wants checks under way through the clones
UnderwayClones == Cardinality({ h \in DOMAIN hcalling : hcalling[h].pc # "idle" })

\* history of a check through clone h that returned b, where one unshared
\* instance returned a
Checked(h, lim, b, a) ==
    hlast' = [h |-> h, lim |-> lim, breached |-> b,
              first |-> IF hlast.h = 0 THEN h ELSE hlast.first,
              alone |-> a, at |-> now,
              len |-> IF lim = "Wants" THEN hcalling[h].len ELSE 0,
              errors |-> hlast.errors + (IF lim = "Errors" THEN 1 ELSE 0),
              wants |-> hlast.wants + (IF lim = "Wants" THEN 1 ELSE 0)]

\* is_rate_limit_breached(lim) called on the Storage of clone h; next to it
\* the same call on one instance that was never cloned.  Errors is one call
\* on the limiter; Wants begins with self.limits.wants.len() and goes on in
\* the two steps below, between which the other clones run.
is_rate_limit_breached_clone ==
    \E h \in DOMAIN handles, lim \in {"Errors", "Wants"} :
        /\ hcalling[h] = NotCalling
        /\ IF lim = "Errors"
           THEN /\ hlast.errors < MaxCloneErrors
                /\ LET ptr == handles[h].errors
                       c == test_and_update(Gcra(quota.errors), heap[ptr], now)
                       a == test_and_update(Gcra(quota.errors), single.errors, now)
                   IN  /\ heap' = [heap EXCEPT ![ptr] = c.next]
                       /\ single' = [single EXCEPT !.errors = a.next]
                       /\ Checked(h, lim, breached(c), breached(a))
                /\ UNCHANGED hcalling
           ELSE /\ hlast.wants + UnderwayClones < MaxCloneWants
                /\ LET held == heap[handles[h].wants]
                       sw == sweep(held.m, held.c)
                   IN  hcalling' = [hcalling EXCEPT ![h] =
                           [pc |-> IF sw THEN "retain_recent" ELSE "check_key",
                            recipient |-> "P",
                            len |-> len(held.m, held.c),
                            stale |-> stale(held.m, held.c, now),
                            swept |-> sw]]
                /\ UNCHANGED <<heap, single, hlast>>
        /\ UNCHANGED handles
    /\ UNCHANGED <<codecVars, streamVars, initiatorVars, responderVars>>
    /\ UNCHANGED <<limitVars, sweepVars, openVars, tickVars, restVars>>

\* the clone that found the wants limiter oversize calls
\* self.limits.wants.retain_recent()
is_rate_limit_breached_clone_retain_recent ==
    \E h \in DOMAIN handles :
        /\ hcalling[h].pc = "retain_recent"
        /\ LET ptr == handles[h].wants
           IN  heap' = [heap EXCEPT ![ptr] =
                          Keyed(retain_recent(@.m, now), retain_recent_bag(@.c, now))]
        /\ single' = [single EXCEPT !.wants =
                          Keyed(retain_recent(@.m, now), retain_recent_bag(@.c, now))]
        /\ hcalling' = [hcalling EXCEPT ![h].pc = "check_key"]
        /\ UNCHANGED <<handles, hlast>>
    /\ UNCHANGED <<codecVars, streamVars, initiatorVars, responderVars>>
    /\ UNCHANGED <<limitVars, sweepVars, openVars, tickVars, restVars>>

\* the clone calls self.limits.wants.check_key(recipient) and returns
\* whether it is an error
is_rate_limit_breached_clone_check_key ==
    \E h \in DOMAIN handles :
        /\ hcalling[h].pc = "check_key"
        /\ LET ptr == handles[h].wants
               recipient == hcalling[h].recipient
               c == test_and_update(Gcra(quota.wants), entry(heap[ptr].m, recipient), now)
               a == test_and_update(Gcra(quota.wants), entry(single.wants.m, recipient), now)
           IN  /\ heap' = [heap EXCEPT ![ptr].m = insert(@, recipient, c.next)]
               /\ single' = [single EXCEPT !.wants.m = insert(@, recipient, a.next)]
               /\ Checked(h, "Wants", breached(c), breached(a))
        /\ hcalling' = [hcalling EXCEPT ![h] = NotCalling]
        /\ UNCHANGED handles
    /\ UNCHANGED <<codecVars, streamVars, initiatorVars, responderVars>>
    /\ UNCHANGED <<limitVars, sweepVars, openVars, tickVars, restVars>>

\* a second passes, until the entries made at the start are inactive
Clones_LimitsTick ==
    /\ now < Gcra(quota.wants).t
    /\ LimitsTick

(***************************************************************************)
(* state.rs: State::open_stream (impl GitStreamFactory).                   *)
(***************************************************************************)
\* the peer open_stream is asked for, and the address hints it may be given
To == "P"
Hints == { <<>>, <<"10.0.0.1:7000">> }

\* Option<Box<dyn GitStream>>
None == [some |-> FALSE, stream |-> NoStream, tag |-> "-"]
Some(upgraded) == [some |-> TRUE, stream |-> upgraded.stream, tag |-> upgraded.tag]
Pending == [pending |-> TRUE]

\* `.ok()?` followed by `Some(Box::new(upgraded))`
\* (mutant: a failed upgrade still hands out the stream)
ok_q_lenient(res) == Some(res)
ok_q(res) == IF res.ok THEN Some(res) ELSE None

\* what open_stream has returned, if it has
open_stream_ret ==
    CASE opc = "none" -> None
      [] opc = "upgrade" /\ ipc = "done" -> ok_q(ires)
      [] OTHER -> Pending

Call(name, arg) == [call |-> name, to |-> To, arg |-> arg]

\* whether open_stream has to connect first
\* (mutant: it connects even when the endpoint has a connection)
may_conn_always_connect(cs, to) == FALSE
may_conn(cs, to) == to \in cs

\* self.endpoint.get_connection(to)
get_connection(cs, to) == IF to \in cs THEN <<"Some">> ELSE <<"None">>

\* the `.map` on the result of io::connect: the ingress consumer is spawned
\* and detached, then the connection is used
\* (mutant: the ingress streams are dropped)
connected_no_spawn(log) == Append(log, Call("open_bidi", <<>>))
connected(log) == log \o <<Call("spawn", <<>>), Call("open_bidi", <<>>)>>

\* the tag open_stream upgrades with: `upgrade::upgrade(stream, upgrade::Git)`
\* (mutant: it asks for the gossip protocol)
upgrade_tag_gossip == [struct |-> "Gossip"]
upgrade_tag == [struct |-> "Git"]

OpenInit ==
    /\ conns \in SUBSET {To}
    /\ opc = "idle"
    /\ olog = <<>>
    /\ ohints \in Hints

OpenIdle ==
    /\ conns = {} /\ opc = "idle" /\ olog = <<>> /\ ohints = <<>>

\* open_stream(to, addr_hints) up to its first await: get_connection, then
\* either open_bidi on the connection found or io::connect
open_stream ==
    /\ opc = "idle"
    /\ LET got == Call("get_connection", get_connection(conns, To))
       IN  IF may_conn(conns, To)
           THEN /\ opc' = "open_bidi"
                /\ olog' = olog \o <<got, Call("open_bidi", <<>>)>>
           ELSE /\ opc' = "connect"
                /\ olog' = olog \o <<got, Call("connect", ohints)>>
    /\ UNCHANGED <<conns, ohints>>
    /\ UNCHANGED <<codecVars, streamVars, initiatorVars, responderVars>>
    /\ UNCHANGED <<limitVars, sweepVars, cloneVars, tickVars, restVars>>

\* io::connect resolves: with a connection, the ingress consumer is spawned
\* and detached, then open_bidi is called; without, open_stream returns None
connect_resolves ==
    /\ opc = "connect"
    /\ \E ok \in BOOLEAN :
        IF ok
        THEN /\ conns' = conns \cup {To}
             /\ olog' = connected(olog)
             /\ opc' = "open_bidi"
        ELSE /\ opc' = "none"
             /\ UNCHANGED <<conns, olog>>
    /\ UNCHANGED ohints
    /\ UNCHANGED <<codecVars, streamVars, initiatorVars, responderVars>>
    /\ UNCHANGED <<limitVars, sweepVars, cloneVars, tickVars, restVars>>

\* conn.open_bidi() resolves: with a stream, upgrade(stream, Git) is called
\* and encodes its tag; without, open_stream returns None
open_bidi_resolves ==
    /\ opc = "open_bidi" /\ peer = "initiator" /\ ipc = "idle"
    /\ \E ok \in BOOLEAN :
        IF ok
        THEN /\ olog' = Append(olog, Call("upgrade", <<>>))
             /\ opc' = "upgrade"
             /\ itag' = upgrade_tag
             /\ icbor' = encode(from(upgrade_tag))
             /\ ioff' = 0
             /\ ipc' = "writing"
        ELSE /\ opc' = "none"
             /\ UNCHANGED <<olog, itag, icbor, ioff, ipc>>
    /\ UNCHANGED <<conns, ohints>>
    /\ UNCHANGED <<ires, rawMsg, rawOff, napp>>
    /\ UNCHANGED <<codecVars, streamVars, responderVars>>
    /\ UNCHANGED <<limitVars, sweepVars, cloneVars, tickVars, restVars>>

\* the caller writes to the stream open_stream returned
GitStreamWrite ==
    /\ open_stream_ret # Pending
    /\ open_stream_ret.some
    /\ AppWrite

\* the remote ingress consumer hands the stream it accepted to with_upgraded
IncomingStream ==
    /\ opc = "upgrade"
    /\ WithUpgradedCall

(***************************************************************************)
(* state.rs: State::tick.                                                  *)
(***************************************************************************)
\* tick::Tock, by the kind of its variant
Tocks == {"SendConnected", "AttemptSend", "Disconnect"}

TickInit ==
    /\ tocks \in ByteSeqs(Tocks, MaxTocks)
    /\ tnext = 0 /\ trunning = 0
    /\ tlog = <<>> /\ tstates = <<>>

TickIdle ==
    /\ tocks = <<>> /\ tnext = 0 /\ trunning = 0
    /\ tlog = <<>> /\ tstates = <<>>

Ev(kind, i) == [ev |-> kind, i |-> i, tock |-> tocks[i]]

\* the for loop takes tock i: `tick::tock(self.clone(), tock).await`
\* (mutant: the loop runs over the tocks from the last to the first)
for_tock_reversed(i) == Len(tocks) + 1 - i
for_tock(i) == i

\* one iteration begins: the handler for the next tock gets a clone of self
Iterate(log) ==
    IF tnext' <= Len(tocks) + 1 /\ tnext' - 1 >= 1
    THEN LET c == clone(handles[1], heap)
         IN  /\ trunning' = for_tock(tnext' - 1)
             /\ tlog' = Append(log, Ev("start", for_tock(tnext' - 1)))
             /\ tstates' = Append(tstates, c.handle)
             /\ heap' = c.heap
    ELSE /\ trunning' = 0
         /\ tlog' = log
         /\ UNCHANGED <<tstates, heap>>

\* state.tick(tocks) is called and polled: the first handler starts
tick ==
    /\ tnext = 0
    /\ tnext' = IF tocks = <<>> THEN Len(tocks) + 2 ELSE 2
    /\ Iterate(tlog)
    /\ UNCHANGED <<tocks, handles, single, hlast, hcalling>>
    /\ UNCHANGED <<codecVars, streamVars, initiatorVars, responderVars>>
    /\ UNCHANGED <<limitVars, sweepVars, openVars, restVars>>

\* the handler being awaited completes: the loop goes on to the next tock,
\* or tick returns
tock_completes ==
    /\ trunning # 0
    /\ tnext' = tnext + 1
    /\ Iterate(Append(tlog, Ev("end", trunning)))
    /\ UNCHANGED <<tocks, handles, single, hlast, hcalling>>
    /\ UNCHANGED <<codecVars, streamVars, initiatorVars, responderVars>>
    /\ UNCHANGED <<limitVars, sweepVars, openVars, restVars>>

(***************************************************************************)
(* state.rs: Storage as broadcast::LocalStorage.  The wrapped storage is   *)
(* a type parameter: what it answers is an input.                          *)
(***************************************************************************)
MaxStoreOps == 2        \* put and ask calls made on one Storage

Providers == {"P"}
Updates == {"u1", "u2"}
PutResults == {"Applied", "Stale"}
AskResults == BOOLEAN

GetResults == {"PooledRef", "PoolError"}

\* one call made on self.inner
InnerCall(name, args) == [name |-> name, args |-> args]

\* what put does twice (mutant: it retries the call on the inner storage)
put_twice(provider, has) ==
    << InnerCall("put", <<provider, has>>), InnerCall("put", <<provider, has>>) >>

\* the calls put makes on self.inner, in order; it returns what the last
\* of them answers
put(provider, has) == << InnerCall("put", <<provider, has>>) >>

\* the calls ask makes on self.inner, in order
ask(want) == << InnerCall("ask", <<want>>) >>

\* the calls storage::Pooled::get makes on self.inner, in order
Pooled_get == << InnerCall("get", << >>) >>

\* the inner storage receives the calls, made by call number id of the
\* Storage; it has not answered them
Unanswered(calls, id) ==
    [i \in 1..Len(calls) |-> [name |-> calls[i].name, args |-> calls[i].args,
                              by |-> id, answered |-> FALSE, answer |-> "-"]]

\* the inner storage answers ans to the calls made by call number id
Answered(calls, id, ans) ==
    [i \in 1..Len(calls) |->
        IF calls[i].by = id
        THEN [calls[i] EXCEPT !.answered = TRUE, !.answer = ans]
        ELSE calls[i]]

\* whether the last limit check was made at this instant and reported a breach
BreachedNow == lastLim # NoCall /\ lastLim.breached /\ lastLim.at = now

\* a Storage with a small quota, checked by one recipient
StorageLimitsInit ==
    /\ quota \in KeyedQuotas
    /\ now = 0
    /\ errorsTat = 0
    /\ wantsTat = << >>
    /\ lastLim = NoCall
    /\ ncalls = [k \in Limits |-> 0]
    /\ nadmit = [k \in Limits |-> 0]
    /\ atZero = [k \in Limits |-> 0]
    /\ winAt = 0 /\ winN = 0

\* is_rate_limit_breached(Limit::Errors) on that Storage, once
Storage_is_rate_limit_breached_Errors ==
    /\ ncalls["Errors"] = 0
    /\ is_rate_limit_breached_Errors

\* is_rate_limit_breached(Limit::Wants { recipient }) begins on that
\* Storage, twice at most and until the recipient is over its quota
Storage_is_rate_limit_breached_Wants ==
    /\ ~BreachedNow
    /\ WantsCalls < 2
    /\ is_rate_limit_breached_Wants

\* the second after
Storage_LimitsTick ==
    /\ now = 0
    /\ LimitsTick

StoreIdle == inner = << >> /\ asked = << >> /\ served = << >>

\* the calls of the Storage that have not returned
Awaiting == { id \in DOMAIN asked : \A k \in DOMAIN served : served[k].call # id }

\* a call of the Storage is polled for the first time: the calls it makes
\* reach the inner storage, and it waits at the await
Begins(name, args, calls) ==
    /\ Len(asked) < MaxStoreOps
    /\ asked' = Append(asked, [name |-> name, args |-> args, limited |-> BreachedNow])
    /\ inner' = inner \o Unanswered(calls, Len(asked) + 1)
    /\ UNCHANGED served

\* the inner storage answers a call of that name, and the call of the
\* Storage returns the answer
Returns(name, results) ==
    \E id \in Awaiting, ans \in results :
        /\ asked[id].name = name
        /\ inner' = Answered(inner, id, ans)
        /\ served' = Append(served, [call |-> id, ret |-> ans])
        /\ UNCHANGED asked

\* Storage::put(provider, has) up to its await
Storage_put ==
    /\ \E provider \in Providers, has \in Updates :
          Begins("put", <<provider, has>>, put(provider, has))
    /\ UNCHANGED <<codecVars, streamVars, initiatorVars, responderVars>>
    /\ UNCHANGED <<limitVars, sweepVars, cloneVars, openVars, tickVars, threadVars, raceVars>>

\* self.inner.put(..) resolves and put returns
Storage_put_returns ==
    /\ Returns("put", PutResults)
    /\ UNCHANGED <<codecVars, streamVars, initiatorVars, responderVars>>
    /\ UNCHANGED <<limitVars, sweepVars, cloneVars, openVars, tickVars, threadVars, raceVars>>

\* Storage::ask(want) up to its await
Storage_ask ==
    /\ \E want \in Updates : Begins("ask", <<want>>, ask(want))
    /\ UNCHANGED <<codecVars, streamVars, initiatorVars, responderVars>>
    /\ UNCHANGED <<limitVars, sweepVars, cloneVars, openVars, tickVars, threadVars, raceVars>>

\* self.inner.ask(..) resolves and ask returns
Storage_ask_returns ==
    /\ Returns("ask", AskResults)
    /\ UNCHANGED <<codecVars, streamVars, initiatorVars, responderVars>>
    /\ UNCHANGED <<limitVars, sweepVars, cloneVars, openVars, tickVars, threadVars, raceVars>>

\* storage::Pooled::get() of the Storage up to its await
Storage_get ==
    /\ Begins("get", << >>, Pooled_get)
    /\ UNCHANGED <<codecVars, streamVars, initiatorVars, responderVars>>
    /\ UNCHANGED <<limitVars, sweepVars, cloneVars, openVars, tickVars, threadVars, raceVars>>

\* self.inner.get() resolves and get returns
Storage_get_returns ==
    /\ Returns("get", GetResults)
    /\ UNCHANGED <<codecVars, streamVars, initiatorVars, responderVars>>
    /\ UNCHANGED <<limitVars, sweepVars, cloneVars, openVars, tickVars, threadVars, raceVars>>

(***************************************************************************)
(* radicle-tracker/src/thread.rs: a Thread of items and its cursor.        *)
(***************************************************************************)
MaxItems == 3           \* items in the main thread and its reply threads
MaxTasks == 2           \* tasks calling open_stream at the same time

\* the values of type A the items carry
Values == {"a", "b"}

\* the closures handed to edit
EditFns == { [x \in Values |-> "b"], [x \in Values |-> IF x = "a" THEN "b" ELSE "a"] }

\* usize::MAX, what 0 - 1 wraps to; only its lying above every index of
\* the model matters, and the integers of the model end here
usize_MAX == 2147483647

\* enum Status<A>
Live(a) == [status |-> "Live", a |-> a]
Dead(a) == [status |-> "Dead", a |-> a]

\* Status::get
get(s) == s.a

\* what kill would do if it lost the value (mutant)
kill_value_lost(s) == Dead("a")

\* Status::kill
kill(s) == Dead(get(s))

\* Status::live(): whether it is Some
live(s) == s.status = "Live"

\* enum Finger
\* Finger::Root is the constant ROOT_FINGER below
Finger_Main(main_ix) == [kind |-> "Main", main_ix |-> main_ix, replies_ix |-> 0]
Finger_Thread(main_ix, replies_ix) ==
    [kind |-> "Thread", main_ix |-> main_ix, replies_ix |-> replies_ix]
ROOT_FINGER == [kind |-> "Root", main_ix |-> 0, replies_ix |-> 0]

\* enum ReplyTo
ReplyTo == {"Main", "Thread"}

\* Replies<A>, a NonEmpty<Status<A>>: index 0 is the main-thread item, the
\* replies to it follow.  Indices count from 0 as in the source.
Replies_new(a) == << Live(a) >>
Replies_reply(replies, a) == Append(replies, Live(a))
Replies_first(replies) == replies[1]
Replies_len(replies) == Len(replies)
Replies_has(replies, index) == index < Len(replies)
Replies_get(replies, index) == replies[index + 1]

\* Thread::new
new(a) == [finger |-> ROOT_FINGER, root |-> Live(a), main_thread |-> << >>]

\* what a call leaves and returns: the thread, Ok or the Error or a panic,
\* and the value inside Ok if there is one
NoVal == [none |-> TRUE]
Ret(t, res, val) == [thread |-> t, res |-> res, val |-> val]
Panic(t) == Ret(t, "panic", NoVal)

\* whether index_main / index_main_mut find main_ix (they panic if not)
has_main(t, main_ix) == main_ix < Len(t.main_thread)
index_main(t, main_ix) == t.main_thread[main_ix + 1]

\* whether the finger designates an item
in_bounds(t) ==
    \/ t.finger.kind = "Root"
    \/ /\ has_main(t, t.finger.main_ix)
       /\ \/ t.finger.kind = "Main"
          \/ Replies_has(index_main(t, t.finger.main_ix), t.finger.replies_ix)

\* the thread with the item (main_ix, replies_ix) replaced by s
with_item(t, main_ix, replies_ix, s) ==
    [t EXCEPT !.main_thread[main_ix + 1][replies_ix + 1] = s]

\* Thread::previous_reply
previous_reply(t, reply_to) ==
    LET f == t.finger IN
    IF f.kind = "Root" THEN Ret(t, "PreviousMainOutOfBounds", NoVal)
    ELSE IF f.kind = "Main" /\ f.main_ix = 0
    THEN Ret([t EXCEPT !.finger = ROOT_FINGER], "Ok", NoVal)
    ELSE IF f.kind = "Main"
    THEN IF reply_to = "Main"
         THEN Ret([t EXCEPT !.finger = Finger_Main(f.main_ix - 1)], "Ok", NoVal)
         ELSE Ret(t, "PreviousThreadOnMain", NoVal)
    ELSE IF reply_to = "Main"
         THEN IF f.main_ix = 0
              THEN Ret(t, "PreviousMainOutOfBounds", NoVal)
              ELSE Ret([t EXCEPT !.finger = Finger_Main(f.main_ix - 1)], "Ok", NoVal)
         ELSE IF f.replies_ix = 0
              THEN Ret([t EXCEPT !.finger = Finger_Main(f.main_ix)], "Ok", NoVal)
              ELSE Ret([t EXCEPT !.finger = Finger_Thread(f.main_ix, f.replies_ix - 1)],
                       "Ok", NoVal)

\* Thread::replies_count, where index_main does not panic
replies_count(t) ==
    IF t.finger.kind = "Root" THEN Len(t.main_thread)
    ELSE Replies_len(index_main(t, t.finger.main_ix))

\* Thread::next_reply.  `self.main_thread.len() - 1` is computed before the
\* finger is looked at: on an empty main thread the subtraction panics in a
\* build that checks overflow and wraps in one that does not.
next_reply(t, reply_to, overflow_checks) ==
    LET f == t.finger
        n == Len(t.main_thread)
    IN
    IF f.kind # "Root" /\ ~has_main(t, f.main_ix) THEN Panic(t)
    ELSE IF n = 0 /\ overflow_checks THEN Panic(t)
    ELSE
    LET main_bound == IF n = 0 THEN usize_MAX ELSE n - 1
        count == replies_count(t)
        replies_bound == [some |-> count # 0, bound |-> count - 1]
    IN
    IF f.kind = "Root"
    THEN IF t.main_thread = << >>
         THEN Ret(t, "NextMainOutOfBounds", NoVal)
         ELSE Ret([t EXCEPT !.finger = Finger_Main(0)], "Ok", NoVal)
    ELSE IF reply_to = "Main"
    THEN IF f.main_ix = main_bound
         THEN Ret(t, "NextMainOutOfBounds", NoVal)
         ELSE Ret([t EXCEPT !.finger = Finger_Main(f.main_ix + 1)], "Ok", NoVal)
    ELSE IF ~replies_bound.some
    THEN Ret(t, "NextRepliesOutOfBound", NoVal)
    ELSE IF f.kind = "Main"
    THEN Ret([t EXCEPT !.finger = Finger_Thread(f.main_ix, 1)], "Ok", NoVal)
    ELSE IF f.replies_ix = replies_bound.bound
    THEN Ret(t, "NextRepliesOutOfBound", NoVal)
    ELSE Ret([t EXCEPT !.finger = Finger_Thread(f.main_ix, f.replies_ix + 1)], "Ok", NoVal)

\* what root would do if it left the finger alone (mutant)
root_stays(t) == Ret(t, "Ok", NoVal)

\* Thread::root
root(t) == Ret([t EXCEPT !.finger = ROOT_FINGER], "Ok", NoVal)

\* Thread::reply_main
reply_main(t, a) ==
    LET main_thread == Append(t.main_thread, Replies_new(a))
    IN  Ret([t EXCEPT !.main_thread = main_thread,
                      !.finger = Finger_Main(Len(main_thread) - 1)], "Ok", NoVal)

\* Thread::reply_thread
reply_thread(t, main_ix, a) ==
    IF ~has_main(t, main_ix) THEN Panic(t)
    ELSE LET replies == Replies_reply(index_main(t, main_ix), a)
             replies_ix == Replies_len(replies) - 1
         IN  Ret([t EXCEPT !.main_thread[main_ix + 1] = replies,
                           !.finger = Finger_Thread(main_ix, replies_ix)], "Ok", NoVal)

\* what reply would do if a reply to a reply thread left the finger on the
\* item replied to (mutant)
reply_keeps_finger(t, a, reply_to) ==
    IF t.finger.kind = "Root" \/ reply_to = "Main" THEN reply_main(t, a)
    ELSE Ret([reply_thread(t, t.finger.main_ix, a).thread EXCEPT !.finger = t.finger],
             "Ok", NoVal)

\* Thread::reply
reply(t, a, reply_to) ==
    IF t.finger.kind = "Root" THEN reply_main(t, a)
    ELSE IF reply_to = "Main" THEN reply_main(t, a)
    ELSE reply_thread(t, t.finger.main_ix, a)

\* what delete would do if it killed the root as well (mutant)
delete_any(t) ==
    IF t.finger.kind = "Root" THEN Ret([t EXCEPT !.root = kill(@)], "Ok", NoVal)
    ELSE Panic(t)

\* Thread::delete
delete(t) ==
    LET f == t.finger IN
    IF f.kind = "Root" THEN Ret(t, "DeleteFirstMain", NoVal)
    ELSE IF ~has_main(t, f.main_ix) THEN Panic(t)
    ELSE IF f.kind = "Main"
    THEN Ret(with_item(t, f.main_ix, 0, kill(Replies_first(index_main(t, f.main_ix)))),
             "Ok", NoVal)
    ELSE IF ~Replies_has(index_main(t, f.main_ix), f.replies_ix) THEN Panic(t)
    ELSE Ret(with_item(t, f.main_ix, f.replies_ix,
                       kill(Replies_get(index_main(t, f.main_ix), f.replies_ix))),
             "Ok", NoVal)

\* Status::get_mut handed to the closure: the value changes, the status stays
edited(s, f) == [s EXCEPT !.a = f[@]]

\* what edit would do if it never called the closure (mutant)
edit_skipped(t, f) == Ret(t, "Ok", NoVal)

\* Thread::edit
edit(t, f) ==
    LET fg == t.finger IN
    IF fg.kind = "Root" THEN Ret([t EXCEPT !.root = edited(@, f)], "Ok", NoVal)
    ELSE IF ~has_main(t, fg.main_ix) THEN Panic(t)
    ELSE IF fg.kind = "Main"
    THEN Ret(with_item(t, fg.main_ix, 0, edited(Replies_first(index_main(t, fg.main_ix)), f)),
             "Ok", NoVal)
    ELSE IF ~Replies_has(index_main(t, fg.main_ix), fg.replies_ix) THEN Panic(t)
    ELSE Ret(with_item(t, fg.main_ix, fg.replies_ix,
                       edited(Replies_get(index_main(t, fg.main_ix), fg.replies_ix), f)),
             "Ok", NoVal)

\* Thread::expand
expand(t) ==
    IF t.finger.kind = "Root"
    THEN Ret(t, "Ok", <<t.root>> \o [i \in 1..Len(t.main_thread) |->
                                        Replies_first(t.main_thread[i])])
    ELSE IF ~has_main(t, t.finger.main_ix) THEN Panic(t)
    ELSE Ret(t, "Ok", index_main(t, t.finger.main_ix))

\* Thread::view
view(t) ==
    LET f == t.finger IN
    IF f.kind = "Root" THEN Ret(t, "Ok", t.root)
    ELSE IF ~has_main(t, f.main_ix) THEN Panic(t)
    ELSE IF f.kind = "Main" THEN Ret(t, "Ok", Replies_first(index_main(t, f.main_ix)))
    ELSE IF ~Replies_has(index_main(t, f.main_ix), f.replies_ix) THEN Panic(t)
    ELSE Ret(t, "Ok", Replies_get(index_main(t, f.main_ix), f.replies_ix))

\* the items of a sequence that are Live, in order
RECURSIVE live_only(_)
live_only(nodes) ==
    IF nodes = << >> THEN << >>
    ELSE (IF live(Head(nodes)) THEN << Head(nodes) >> ELSE << >>) \o live_only(Tail(nodes))

\* the loop of prune: the Live items of each Replies, without the Replies
\* that have none
RECURSIVE pruned(_)
pruned(main_thread) ==
    IF main_thread = << >> THEN << >>
    ELSE LET live_replies == live_only(Head(main_thread))
         IN  (IF live_replies = << >> THEN << >> ELSE << live_replies >>)
             \o pruned(Tail(main_thread))

\* what prune would do if it kept the Dead items (mutant)
prune_nothing(t) == t

\* Thread::prune (cfg(test))
prune(t) == [t EXCEPT !.main_thread = pruned(@)]

\* impl PartialEq for Thread
eq(t, other) == t.main_thread = other.main_thread

\* tests::prop_deleting_a_replied_comment_is_noop
prop_deleting_a_replied_comment_is_noop(t, a) ==
    LET old_thread == t
        replied == reply(t, a, "Main")
        deleted == delete(replied.thread)
    IN  IF replied.res = "panic" THEN Panic(replied.thread)
        ELSE IF deleted.res # "Ok" THEN deleted
        ELSE Ret(prune(deleted.thread), "Ok", eq(prune(deleted.thread), old_thread))

\* the number of items in the main thread and the reply threads
RECURSIVE items(_)
items(main_thread) ==
    IF main_thread = << >> THEN 0 ELSE Len(Head(main_thread)) + items(Tail(main_thread))

\* a call on the thread and what it returned
Op(op, reply_to, r) == [op |-> op, reply_to |-> reply_to, res |-> r.res, val |-> r.val]

ThreadIdle == thread = new("a") /\ tres = Op("new", "-", Ret(thread, "Ok", NoVal))

ThreadInit ==
    /\ \E a \in Values : thread = new(a)
    /\ tres = Op("new", "-", Ret(thread, "Ok", NoVal))

\* the program goes on using the thread: no call has panicked, and the test
\* property has not consumed it
Running ==
    /\ tres.res # "panic"
    /\ tres.op # "prop_deleting_a_replied_comment_is_noop"

\* the thread after the call that returned r
Called_thread(op, reply_to, r) ==
    /\ thread' = r.thread
    /\ tres' = Op(op, reply_to, r)
    /\ UNCHANGED <<codecVars, streamVars, initiatorVars, responderVars>>
    /\ UNCHANGED <<limitVars, sweepVars, cloneVars, openVars, tickVars, storeVars, raceVars>>

Thread_previous_reply ==
    /\ Running
    /\ \E reply_to \in ReplyTo :
          Called_thread("previous_reply", reply_to, previous_reply(thread, reply_to))

\* the build decides what the underflow does; the finger is followed up to
\* MaxItems steps into a reply thread
Thread_next_reply ==
    /\ Running
    /\ \E reply_to \in ReplyTo, overflow_checks \in BOOLEAN :
          /\ next_reply(thread, reply_to, overflow_checks).thread.finger.replies_ix <= MaxItems
          /\ Called_thread("next_reply", reply_to,
                           next_reply(thread, reply_to, overflow_checks))

Thread_root ==
    /\ Running
    /\ Called_thread("root", "-", root(thread))

Thread_reply ==
    /\ Running
    /\ items(thread.main_thread) < MaxItems
    /\ \E a \in Values, reply_to \in ReplyTo :
          Called_thread("reply", reply_to, reply(thread, a, reply_to))

Thread_delete ==
    /\ Running
    /\ Called_thread("delete", "-", delete(thread))

Thread_edit ==
    /\ Running
    /\ \E f \in EditFns : Called_thread("edit", "-", edit(thread, f))

Thread_view ==
    /\ Running
    /\ Called_thread("view", "-", view(thread))

Thread_expand ==
    /\ Running
    /\ Called_thread("expand", "-", expand(thread))

\* the test property run on the thread, after which the test ends
Thread_prop_deleting_a_replied_comment_is_noop ==
    /\ Running
    /\ \E a \in Values :
          Called_thread("prop_deleting_a_replied_comment_is_noop", "-",
                        prop_deleting_a_replied_comment_is_noop(thread, a))

(***************************************************************************)
(* state.rs: open_stream called by several tasks.  Each task holds a clone *)
(* of the State; the endpoint and its connections are shared.  A task runs *)
(* until its next await, where any other task may run.                     *)
(***************************************************************************)
Tasks == 1..MaxTasks

\* a call made by a task
TaskCall(task, name, arg) == [task |-> task, call |-> name, to |-> To, arg |-> arg]

\* the calls of a log, each made by the task
by_task(task, log) ==
    [i \in 1..Len(log) |-> TaskCall(task, log[i].call, log[i].arg)]

RaceIdle == tasks = [task \in Tasks |-> "idle"] /\ elog = << >>

\* open_stream(to, addr_hints) of one task up to its first await
open_stream_task ==
    \E task \in Tasks :
        /\ tasks[task] = "idle"
        /\ LET got == Call("get_connection", get_connection(conns, To))
           IN  IF may_conn(conns, To)
               THEN /\ tasks' = [tasks EXCEPT ![task] = "open_bidi"]
                    /\ elog' = elog \o by_task(task, <<got, Call("open_bidi", <<>>)>>)
               ELSE /\ tasks' = [tasks EXCEPT ![task] = "connect"]
                    /\ elog' = elog \o by_task(task, <<got, Call("connect", ohints)>>)
        /\ UNCHANGED <<conns, opc, olog, ohints>>
        /\ UNCHANGED <<codecVars, streamVars, initiatorVars, responderVars>>
        /\ UNCHANGED <<limitVars, sweepVars, cloneVars, tickVars, storeVars, threadVars>>

\* io::connect of one task resolves
connect_resolves_task ==
    \E task \in Tasks, ok \in BOOLEAN :
        /\ tasks[task] = "connect"
        /\ IF ok
           THEN /\ conns' = conns \cup {To}
                /\ elog' = elog \o by_task(task, connected(<< >>))
                /\ tasks' = [tasks EXCEPT ![task] = "open_bidi"]
           ELSE /\ tasks' = [tasks EXCEPT ![task] = "none"]
                /\ UNCHANGED <<conns, elog>>
        /\ UNCHANGED <<opc, olog, ohints>>
        /\ UNCHANGED <<codecVars, streamVars, initiatorVars, responderVars>>
        /\ UNCHANGED <<limitVars, sweepVars, cloneVars, tickVars, storeVars, threadVars>>

\* conn.open_bidi() of one task resolves: with a stream, upgrade(stream, Git)
\* is called on it and the task waits for the write of the request; without,
\* the task's call returns None
open_bidi_resolves_task ==
    \E task \in Tasks, ok \in BOOLEAN :
        /\ tasks[task] = "open_bidi"
        /\ IF ok
           THEN /\ tasks' = [tasks EXCEPT ![task] = "upgrade"]
                /\ elog' = elog \o by_task(task, <<Call("upgrade", <<>>)>>)
           ELSE /\ tasks' = [tasks EXCEPT ![task] = "none"]
                /\ UNCHANGED elog
        /\ UNCHANGED <<conns, opc, olog, ohints>>
        /\ UNCHANGED <<codecVars, streamVars, initiatorVars, responderVars>>
        /\ UNCHANGED <<limitVars, sweepVars, cloneVars, tickVars, storeVars, threadVars>>

\* upgrade(stream, Git) of one task resolves: the task's call returns Some
\* with the upgraded stream, or None when the write failed
upgrade_resolves_task ==
    \E task \in Tasks, ok \in BOOLEAN :
        /\ tasks[task] = "upgrade"
        /\ tasks' = [tasks EXCEPT ![task] = IF ok THEN "some" ELSE "none"]
        /\ UNCHANGED <<elog, conns, opc, olog, ohints>>
        /\ UNCHANGED <<codecVars, streamVars, initiatorVars, responderVars>>
        /\ UNCHANGED <<limitVars, sweepVars, cloneVars, tickVars, storeVars, threadVars>>

\* the subsystems above, before anything is asked of them
RestIdle == StoreIdle /\ ThreadIdle /\ RaceIdle
ProtoIdle == CloneInit /\ OpenIdle /\ TickIdle /\ RestIdle

(***************************************************************************)
(* Specifications.  Each one runs one part of the system; the variables   *)
(* of the other parts stay at their initial values.                       *)
(***************************************************************************)
CodecIdle ==
    /\ cpc = "done" /\ cbuf = <<>> /\ cres = NoResult /\ cout = NoResult
    /\ cjob = [kind |-> "bytes", req |-> "-", v |-> 0, n |-> 0, brk |-> FALSE]

StreamIdle ==
    /\ StreamInit /\ peer = "raw" /\ sid = 1 /\ rawMsg = <<>>
    /\ closed = "open"

\* the codec as pure functions
CodecNext ==
    \/ CodecEncode
    \/ CodecDecode
    \/ CodecDispatch

InitCodec == CodecInit /\ StreamIdle /\ LimitsInit /\ SweepIdle /\ ProtoIdle
SpecCodec == InitCodec /\ [][CodecNext]_vars

\* one stream between an initiator (or any peer) and a responder
UpgradeNext ==
    \/ UpgradeCall
    \/ UpgradeWrite
    \/ UpgradeWriteFails
    \/ RawWrite
    \/ AppWrite
    \/ WriterEnds
    \/ WithUpgradedCall
    \/ Tick
    \/ WithUpgradedPoll
    \/ UpgradedRead

InitUpgrade == CodecIdle /\ StreamInit /\ LimitsInit /\ SweepIdle /\ ProtoIdle
SpecUpgrade == InitUpgrade /\ [][UpgradeNext]_vars

\* the wants limiter of a Storage checked for one recipient: it never holds
\* more than one entry, so that no call sweeps it
WantsNext ==
    \/ is_rate_limit_breached_Wants
    \/ is_rate_limit_breached_Wants_check_key
    \/ LimitsTick

InitLimits == CodecIdle /\ StreamIdle /\ LimitsInit /\ SweepIdle /\ ProtoIdle
SpecWants == InitLimits /\ [][WantsNext]_vars

\* the errors limiter of a Storage
ErrorsNext ==
    \/ is_rate_limit_breached_Errors
    \/ LimitsTick

SpecErrors == InitLimits /\ [][ErrorsNext]_vars

\* with_upgraded on the stream of a peer that is slow or silent, with the
\* scheduling the executor gives: time passes while with_upgraded waits, and
\* its task is polled when the stream or the timer has something for it
SlowMsgs == { <<>>, <<130, 0>>, <<130, 0, 2, 255>> }

InitSlow == InitUpgrade /\ peer = "raw" /\ rawMsg \in SlowMsgs

SlowNext ==
    \/ RawWrite
    \/ WithUpgradedCall
    \/ Tick
    \/ WithUpgradedPoll

SpecTimeoutFair ==
    /\ InitSlow /\ [][SlowNext]_vars
    /\ WF_vars(Tick)
    /\ WF_vars(WithUpgradedPoll)

\* the wants limiter of a Storage with many recipients
InitKeyed == CodecIdle /\ StreamIdle /\ KeyedInit /\ ProtoIdle

\* the wants limiter checked by several recipients, next to a crowd
KeyedNext ==
    \/ is_rate_limit_breached_Wants
    \/ is_rate_limit_breached_Wants_retain_recent
    \/ is_rate_limit_breached_Wants_check_key
    \/ LimitsTick

SpecKeyed == InitKeyed /\ [][KeyedNext]_vars

\* clones of one State checking the limits
ClonesNext ==
    \/ State_clone
    \/ is_rate_limit_breached_clone
    \/ is_rate_limit_breached_clone_retain_recent
    \/ is_rate_limit_breached_clone_check_key
    \/ Clones_LimitsTick

InitClones ==
    /\ CodecIdle /\ StreamIdle /\ LimitsInit /\ SweepIdle
    /\ CrowdedInit /\ OpenIdle /\ TickIdle /\ RestIdle
SpecClones == InitClones /\ [][ClonesNext]_vars

\* open_stream, the stream it opens and the responder on the other end
OpenNext ==
    \/ open_stream
    \/ connect_resolves
    \/ open_bidi_resolves
    \/ UpgradeWrite
    \/ UpgradeWriteFails
    \/ GitStreamWrite
    \/ WriterEnds
    \/ IncomingStream
    \/ Tick
    \/ WithUpgradedPoll
    \/ UpgradedRead

InitOpen ==
    /\ CodecIdle /\ StreamInit /\ peer = "initiator"
    /\ LimitsInit /\ SweepIdle /\ CloneInit /\ OpenInit /\ TickIdle /\ RestIdle
SpecOpen == InitOpen /\ [][OpenNext]_vars

\* a Storage asked to put and ask while its limits are checked
StorageNext ==
    \/ Storage_put
    \/ Storage_put_returns
    \/ Storage_ask
    \/ Storage_ask_returns
    \/ Storage_get
    \/ Storage_get_returns
    \/ Storage_is_rate_limit_breached_Wants
    \/ is_rate_limit_breached_Wants_check_key
    \/ Storage_is_rate_limit_breached_Errors
    \/ Storage_LimitsTick

InitStorage ==
    /\ CodecIdle /\ StreamIdle /\ ProtoIdle
    /\ StorageLimitsInit /\ SweepIdle
SpecStorage == InitStorage /\ [][StorageNext]_vars

\* a program using one Thread through its public operations
ThreadNext ==
    \/ Thread_previous_reply
    \/ Thread_next_reply
    \/ Thread_root
    \/ Thread_reply
    \/ Thread_delete
    \/ Thread_edit
    \/ Thread_view
    \/ Thread_expand

InitThread ==
    /\ CodecIdle /\ StreamIdle /\ LimitsInit /\ SweepIdle
    /\ CloneInit /\ OpenIdle /\ TickIdle /\ StoreIdle /\ ThreadInit /\ RaceIdle
SpecThread == InitThread /\ [][ThreadNext]_vars

\* the same program under test: the property is run on the thread it built
ThreadTestNext ==
    \/ Thread_previous_reply
    \/ Thread_next_reply
    \/ Thread_root
    \/ Thread_reply
    \/ Thread_delete
    \/ Thread_edit
    \/ Thread_view
    \/ Thread_expand
    \/ Thread_prop_deleting_a_replied_comment_is_noop

SpecThreadTest == InitThread /\ [][ThreadTestNext]_vars

\* both limits of one Storage checked in any order
BothLimitsNext ==
    \/ is_rate_limit_breached_Errors
    \/ is_rate_limit_breached_Wants
    \/ is_rate_limit_breached_Wants_check_key
    \/ Storage_LimitsTick

SpecBothLimits == InitStorage /\ [][BothLimitsNext]_vars

\* MaxTasks tasks calling open_stream for the same peer
RaceNext ==
    \/ open_stream_task
    \/ connect_resolves_task
    \/ open_bidi_resolves_task
    \/ upgrade_resolves_task

InitRace ==
    /\ CodecIdle /\ StreamIdle /\ LimitsInit /\ SweepIdle
    /\ CloneInit /\ TickIdle /\ StoreIdle /\ ThreadIdle /\ RaceIdle
    /\ conns \in SUBSET {To} /\ opc = "idle" /\ olog = << >> /\ ohints \in Hints
SpecRace == InitRace /\ [][RaceNext]_vars

\* one call of tick
TickNext ==
    \/ tick
    \/ tock_completes

InitTick ==
    /\ CodecIdle /\ StreamIdle /\ LimitsInit /\ SweepIdle
    /\ CloneInit /\ OpenIdle /\ TickInit /\ RestIdle
SpecTick == InitTick /\ [][TickNext]_vars

\* everything together
Init == CodecInit /\ StreamInit /\ LimitsInit /\ SweepIdle /\ CloneInit /\ OpenInit /\ TickInit
Next ==
    \/ CodecNext
    \/ UpgradeNext
    \/ WantsNext
    \/ ErrorsNext
    \/ ClonesNext
    \/ OpenNext
    \/ TickNext
Spec == Init /\ [][Next]_vars

(***************************************************************************)
(* Properties.                                                             *)
(***************************************************************************)
WireBytes ==
    [Gossip |-> <<130, 0, 0, 255>>, Git |-> <<130, 0, 1, 255>>,
     Membership |-> <<130, 0, 2, 255>>, Interrogation |-> <<130, 0, 3, 255>>,
     RequestPull |-> <<130, 0, 24, 200>>]

KnownDiscriminators == {0, 1, 2, 3, 200}

\* C1: when the 4 bytes with_upgraded read are the encoding of tag T, it
\* returns the variant for T wrapping the stream it was given, exactly those
\* 4 bytes are gone from the stream, and what is read from the upgraded
\* stream afterwards is what the peer sent after the tag, in order.
C1_Demux ==
    \A T \in UpgradeRequest :
        (rpc = "done" /\ rbuf = WireBytes[T]) =>
            /\ rres = Ok(T, ResponderEnd(sid))
            /\ rbuf \o rread \o wire = sent

C1_Witness ==
    /\ rpc = "done" /\ rres.ok /\ rres.tag = "Membership"
    /\ rread = <<5, 130>> /\ wire = <<>>

\* C2: decoding the bytes produced by encoding a tag yields that tag.
C2_RoundTrip ==
    (cjob.kind = "tag" /\ cpc \in {"decoded", "done"}) => cres = Ok_req(cjob.req)

C2_Witness ==
    cjob.kind = "tag" /\ cjob.req = "RequestPull" /\ cpc = "done" /\ cres.ok

\* C3: every tag encodes to its 4 bytes of the wire format, and the last of
\* them is the break 0xFF exactly when the discriminator is 23 or less.
C3_WireFormat ==
    (cjob.kind = "tag" /\ cpc # "encode") =>
        /\ cbuf = WireBytes[cjob.req]
        /\ Len(cbuf) = 4
        /\ Len(cbuf) = UPGRADE_REQUEST_ENCODING_LEN
        /\ (cbuf[Len(cbuf)] = 255) <=> (as_u8(cjob.req) <= 23)

C3_Witness ==
    cjob.kind = "tag" /\ cjob.req = "RequestPull" /\ cbuf = <<130, 0, 24, 200>>

\* C4: a two-element array [0, n] with n not a known discriminator decodes to
\* the error UnknownVariant(n), never to a tag, and with_upgraded returns a
\* Decode error for it.
C4_UnknownDiscriminator ==
    (cjob.kind = "array2" /\ cjob.v = 0 /\ cjob.n \notin KnownDiscriminators) =>
        /\ cpc \in {"decoded", "done"} =>
              cres = Err_decode("UnknownVariant", cjob.n)
        /\ cpc = "done" =>
              /\ ~cout.ok
              /\ cout.source = [kind |-> "Decode", err |-> "UnknownVariant", n |-> cjob.n]

C4_Witness ==
    /\ cbuf = <<130, 0, 7, 255>> /\ cpc = "done"
    /\ cout.source = [kind |-> "Decode", err |-> "UnknownVariant", n |-> 7]

\* C5: a two-element array whose version v is not 0 decodes to the error
\* UnknownVariant(v) whatever follows the version, a discriminator that
\* version 0 knows included.
C5_WrongVersion ==
    /\ (cjob.kind = "array2" /\ cjob.v # 0 /\ cpc \in {"decoded", "done"}) =>
          cres = Err_decode("UnknownVariant", cjob.v)
    /\ (cjob.kind = "bytes" /\ cpc \in {"decoded", "done"} /\ Len(cbuf) >= 2
            /\ cbuf[1] = 130 /\ cbuf[2] \in 1..23) =>
          cres = Err_decode("UnknownVariant", cbuf[2])

C5_Witness ==
    /\ cjob.kind = "array2" /\ cbuf = <<130, 1, 0, 255>> /\ cpc = "done"
    /\ cres = Err_decode("UnknownVariant", 1)

\* C6: every failure of upgrade and of with_upgraded returns the stream the
\* call was given, and the source kind tells what failed.
C6_ErrorKeepsStream ==
    /\ (ipc = "done" /\ ~ires.ok) =>
          /\ ires.stream = InitiatorEnd(sid)
          /\ ires.source.kind \in {"Encode", "Io"}
    /\ (rpc = "done" /\ ~rres.ok) =>
          /\ rres.stream = ResponderEnd(sid)
          /\ rres.source.kind \in {"Timeout", "Io", "Decode"}
          /\ rres.source.kind = "Timeout" =>
                Len(rbuf) < 4 /\ rdoneAt >= 23
          /\ rres.source.kind = "Io" =>
                Len(rbuf) < 4 /\ closed \in {"fin", "reset"}
          /\ rres.source.kind = "Decode" =>
                Len(rbuf) = 4 /\ rbuf \notin {WireBytes[T] : T \in UpgradeRequest}

C6_Witness ==
    /\ ipc = "done" /\ ~ires.ok /\ ires.stream = InitiatorEnd(sid)
    /\ rpc = "done" /\ ~rres.ok /\ rres.stream = ResponderEnd(sid)

C6_WitnessEof ==
    rpc = "done" /\ rres.source.err = "UnexpectedEof" /\ Len(rbuf) = 2

\* C7: with_upgraded does not wait forever: it always completes, a stream
\* that delivers nothing makes it complete with Timeout and the stream it
\* was given, not before 23 seconds have passed, and it never reports
\* Timeout when 4 bytes had arrived before the deadline.
C7_TimeoutSafety ==
    /\ (rpc = "done" /\ ~rres.ok /\ rres.source.kind = "Timeout") =>
          /\ rres.stream = ResponderEnd(sid)
          /\ rdoneAt >= 23
          /\ Len(rbuf) < 4
          /\ ~early4
    /\ (rpc = "done" /\ Len(rbuf) < 4 /\ closed = "open") =>
          rres = Err(ResponderEnd(sid), Timeout)

C7_Timeout ==
    /\ []C7_TimeoutSafety
    /\ (rpc = "reading") ~> (rpc = "done")

C7_Witness ==
    /\ rpc = "done" /\ rres.source.kind = "Timeout" /\ rdoneAt = 23
    /\ sent = <<>> /\ rres.stream = ResponderEnd(sid)

\* C8: upgrade only writes: it has returned Ok as soon as the tag bytes are
\* written, whatever the responder has or has not done, its writes never
\* wait for the responder, and application data may follow at once.
C8_OneWay ==
    /\ ipc = "writing" => ioff < Len(icbor)
    /\ (ipc = "writing" /\ closed = "open") => ENABLED UpgradeWrite
    /\ (ipc = "done" /\ ires.ok) =>
          /\ ires = Ok(itag.struct, InitiatorEnd(sid))
          /\ SubSeq(sent, 1, 4) = WireBytes[from(itag)]
          /\ (closed = "open" /\ napp < MaxApp) => ENABLED AppWrite

C8_Witness ==
    /\ ipc = "done" /\ ires.ok /\ rpc = "idle" /\ napp > 0
    /\ Len(sent) = 4 + napp

\* C9: with the default quota, on a fresh Storage the first 30 Wants checks
\* for a recipient made before any time passes return false and the next
\* ones true; after 2 seconds of idle (not after 1) the next check returns
\* false, and one token only was replenished by then.
C9_WantsAdmission ==
    \A p \in Recipients :
        /\ now = 0 => nadmit[p] = Min(ncalls[p], 30)
        /\ (now = 0 /\ lastLim.recipient = p) => (lastLim.breached <=> ncalls[p] > 30)
        /\ (atZero[p] >= 30 /\ ncalls[p] = atZero[p] + 1) =>
              (lastLim.breached <=> lastLim.at < 2)
        /\ (atZero[p] >= 30 /\ now < 4) => nadmit[p] <= 31

\* 31 checks were made at once, the last of them was refused, and the check
\* made 2 seconds later was admitted
C9_Witness ==
    /\ atZero["P"] = 31 /\ ncalls["P"] = 32 /\ nadmit["P"] = 31
    /\ lastLim.at = 2 /\ ~lastLim.breached

\* C10: the errors limiter has burst 10 and interval 6 s; a check is
\* breached exactly when it is not admitted; from the fresh bucket exactly
\* 10 checks are admitted before any time passes and the next is refused;
\* after 6 s of idle one more check is admitted, and one only before 12 s;
\* and in every window the admitted checks are at most 10 plus the whole
\* intervals elapsed in it.
C10_DirectLimiter ==
    /\ quota.errors.max_burst = 10 /\ quota.errors.replenish_1_per = 6
    /\ now = 0 => nadmit["Errors"] = Min(ncalls["Errors"], 10)
    /\ (now = 0 /\ lastLim.lim = "Errors") =>
          (lastLim.breached <=> ncalls["Errors"] > 10)
    /\ (atZero["Errors"] >= 10 /\ ncalls["Errors"] = atZero["Errors"] + 1) =>
          (lastLim.breached <=> lastLim.at < 6)
    /\ (atZero["Errors"] >= 10 /\ now < 12) => nadmit["Errors"] <= 11
    /\ winN <= quota.errors.max_burst + (now - winAt) \div quota.errors.replenish_1_per

\* 11 checks were made at once, the last of them refused; 6 seconds later
\* one check was admitted and the next refused
C10_Witness ==
    /\ atZero["Errors"] = 11 /\ ncalls["Errors"] = 13 /\ nadmit["Errors"] = 11
    /\ lastLim.lim = "Errors" /\ lastLim.at = 6 /\ lastLim.breached
    /\ winN = 1 /\ winAt = 6

\* C11: the wants limiter keeps the recipients apart: the state it holds for
\* a recipient is the one that recipient's own checks produce, and a check
\* for a recipient reports a breach only when the recipient's own earlier
\* checks have used up its bucket.
C11_Isolation ==
    \A r \in Recipients :
        /\ r \in DOMAIN wantsTat => wantsTat[r] = plainTat[r]
        /\ (lastLim.lim = "Wants" /\ lastLim.recipient = r)
              => (lastLim.breached <=> lastLim.plain)
        /\ (lastLim.lim = "Wants" /\ lastLim.recipient = r /\ ncalls[r] = 1)
              => ~lastLim.breached

\* P used up its bucket and was refused; Q, checked for the first time in
\* the same second next to 8192 other recipients, was admitted
C11_Witness ==
    /\ ncalls["P"] = 2 /\ nadmit["P"] = 1
    /\ lastLim.lim = "Wants" /\ lastLim.recipient = "Q"
    /\ ~lastLim.breached /\ lastLim.at = 0
    /\ lastLim.len > WANTS_SWEEP_THRESHOLD

\* C12: a Wants call that finds more than 8192 entries in the limiter sweeps
\* it, and it sweeps before its own check; when more than 8192 of the
\* entries it found were inactive (their bucket full again), the limiter
\* holds fewer than 8192 entries after the call, whatever other threads
\* check in between.
C12_SweepRuns ==
    /\ \A thread_id \in Threads :
          /\ calling[thread_id].pc = "retain_recent" =>
                calling[thread_id].len > WANTS_SWEEP_THRESHOLD
          /\ calling[thread_id].pc = "check_key" =>
                (calling[thread_id].swept
                    <=> calling[thread_id].len > WANTS_SWEEP_THRESHOLD)
    /\ lastLim.lim = "Wants" =>
          /\ lastLim.swept <=> lastLim.len > WANTS_SWEEP_THRESHOLD
          /\ lastLim.stale > WANTS_SWEEP_THRESHOLD =>
                /\ lastLim.swept
                /\ lastLim.after < WANTS_SWEEP_THRESHOLD
                /\ lastLim.after <= lastLim.len - lastLim.stale + Cardinality(peers)

\* two threads found 8193 inactive entries and both swept; the one checked
\* P, the other has yet to check Q
C12_Witness ==
    /\ lastLim.lim = "Wants" /\ lastLim.stale > WANTS_SWEEP_THRESHOLD
    /\ lastLim.recipient = "P" /\ lastLim.swept /\ lastLim.after = 1
    /\ \E thread_id \in Threads :
          /\ calling[thread_id].pc = "check_key"
          /\ calling[thread_id].recipient = "Q"
          /\ calling[thread_id].swept
          /\ calling[thread_id].stale > WANTS_SWEEP_THRESHOLD

\* C13: the sweep cannot be observed: every Wants check returns what a
\* limiter that never sweeps returns for the same checks, and an entry is
\* gone from the limiter only if its bucket was full again.
C13_SweepEquivalence ==
    /\ (lastLim.lim = "Wants" /\ lastLim.recipient \in Recipients)
          => (lastLim.breached <=> lastLim.plain)
    /\ \A r \in DOMAIN plainTat \ DOMAIN wantsTat : plainTat[r] <= now
    /\ \A r \in DOMAIN wantsTat : wantsTat[r] = plainTat[r]

\* P was checked next to 8192 others; a second later a check for P found
\* all 8193 entries inactive, swept them away, P's own with them, and
\* admitted P as the limiter that never sweeps did, leaving the same state
C13_Witness ==
    /\ ncalls["P"] = 2 /\ nadmit["P"] = 2 /\ atZero["P"] = 1
    /\ lastLim.lim = "Wants" /\ lastLim.recipient = "P" /\ lastLim.at = 1
    /\ lastLim.swept /\ lastLim.stale = WANTS_SWEEP_THRESHOLD + 1
    /\ ~lastLim.breached /\ ~lastLim.plain
    /\ lastLim.after = 1 /\ wantsTat["P"] = plainTat["P"]

\* C14: the wants limiter never holds more than 8193 entries.
C14_MapBounded ==
    len(wantsTat, crowd) <= WANTS_SWEEP_THRESHOLD + 1

\* C15: every clone of a State holds the very limiters of the original: a
\* check made through any clone returns what one unshared instance would
\* return for all the checks made so far, whichever way the steps of the
\* clones' checks interleave, and a recipient inserted through one clone is
\* in the wants limiter of every clone.
C15_CloneIsHandle ==
    /\ \A h \in DOMAIN handles, f \in LimiterFields : handles[h][f] = Storage_new[f]
    /\ hlast.breached = hlast.alone
    /\ \A h \in DOMAIN handles :
          /\ heap[handles[h].errors] = single.errors
          /\ heap[handles[h].wants] = single.wants
    /\ (hlast.lim = "Wants" /\ now = hlast.at) =>
          \A h \in DOMAIN handles : "P" \in DOMAIN heap[handles[h].wants].m

\* the errors limit was exhausted through the two clones; then the one clone
\* found 8193 inactive entries in the wants limiter and swept it, the other
\* began its check of P and found the limiter empty, and the first was
\* admitted
C15_Witness ==
    /\ Len(handles) = 2 /\ hlast.first = 1
    /\ hlast.errors = 11
    /\ heap[handles[2].errors] - now > Gcra(quota.errors).tau
    /\ hlast.lim = "Wants" /\ hlast.h = 1 /\ ~hlast.breached
    /\ hlast.len = WANTS_SWEEP_THRESHOLD + 1
    /\ hcalling[1] = NotCalling
    /\ hcalling[2].pc = "check_key" /\ hcalling[2].len = 0

\* calls of the given name open_stream has made
Calls(name) == Cardinality({k \in DOMAIN olog : olog[k].call = name})

\* the endpoint held a connection for the peer when open_stream was called
HadConnection == opc # "idle" /\ olog[1].arg = <<"Some">>
HadNoConnection == opc # "idle" /\ olog[1].arg = <<"None">>

Returned == open_stream_ret # Pending
ReturnedSome == Returned /\ open_stream_ret.some

\* C16: when the endpoint holds a connection for the peer, open_stream
\* never calls connect and spawns nothing, calls open_bidi once, calls
\* upgrade at most once, and when it returns a stream the Git tag is on
\* that stream once, ahead of everything else.
C16_Reuse ==
    HadConnection =>
        /\ Calls("connect") = 0 /\ Calls("spawn") = 0
        /\ Calls("open_bidi") = 1
        /\ Calls("upgrade") = (IF opc = "upgrade" THEN 1 ELSE 0)
        /\ opc = "upgrade" => itag = [struct |-> "Git"]
        /\ ReturnedSome =>
              /\ SubSeq(sent, 1, 4) = WireBytes["Git"]
              /\ Len(sent) = 4 + napp

C16_Witness ==
    /\ HadConnection /\ ReturnedSome
    /\ sent = WireBytes["Git"] /\ Len(olog) = 3

\* C17: when the endpoint holds no connection for the peer, open_stream
\* calls connect once, with the hints it was given; when connect succeeds
\* one ingress consumer is spawned, before open_bidi is called; when connect
\* fails nothing is spawned, open_bidi is not called and None is returned.
C17_Bootstrap ==
    HadNoConnection =>
        /\ Calls("connect") = 1
        /\ olog[2] = Call("connect", ohints)
        /\ Len(olog) > 2 =>
              /\ olog[3] = Call("spawn", <<>>)
              /\ olog[4] = Call("open_bidi", <<>>)
              /\ Calls("spawn") = 1 /\ Calls("open_bidi") = 1
              /\ To \in conns
        /\ (opc = "none" /\ Len(olog) = 2) =>
              /\ open_stream_ret = None
              /\ Calls("spawn") = 0 /\ Calls("open_bidi") = 0
              /\ sent = <<>>

C17_Witness ==
    /\ HadNoConnection /\ ReturnedSome
    /\ ohints # <<>> /\ Calls("spawn") = 1

C17_WitnessFails ==
    HadNoConnection /\ opc = "none" /\ Len(olog) = 2

\* C18: open_stream returns an Option in every case: None when connect
\* fails, when open_bidi fails and when the upgrade fails; Some only when
\* the connection was there or made, the stream was opened and the whole
\* Git tag was written, and then with the stream that was opened.
C18_FailuresAreNone ==
    /\ Returned => (open_stream_ret = None \/ open_stream_ret.some)
    /\ opc = "none" => open_stream_ret = None
    /\ (opc = "upgrade" /\ ipc = "done" /\ ~ires.ok) => open_stream_ret = None
    /\ ReturnedSome =>
          /\ To \in conns
          /\ Calls("open_bidi") = 1 /\ Calls("upgrade") = 1
          /\ ires.ok
          /\ Len(sent) >= 4 /\ SubSeq(sent, 1, 4) = WireBytes["Git"]
          /\ open_stream_ret.stream = InitiatorEnd(sid)
          /\ open_stream_ret.tag = "Git"

C18_Witness ==
    /\ opc = "upgrade" /\ ipc = "done" /\ ~ires.ok
    /\ open_stream_ret = None /\ Len(sent) = 2

C18_WitnessBidi ==
    opc = "none" /\ Calls("open_bidi") = 1 /\ open_stream_ret = None

\* C19: whenever open_stream has returned a stream, the bytes 82 00 01 FF
\* are the first four on it and everything after them was written by the
\* caller after the return; a responder whose with_upgraded obtains its four
\* bytes resolves to Git with its end of the stream and then reads the
\* caller's bytes and nothing else, in order; a responder that does not
\* obtain them (deadline passed, transport failed) gets an error with its
\* stream, although open_stream returned a stream.
C19_EndToEnd ==
    /\ ReturnedSome =>
          /\ SubSeq(sent, 1, 4) = <<130, 0, 1, 255>>
          /\ Len(sent) = 4 + napp
    /\ napp > 0 => ReturnedSome
    /\ (rpc = "done" /\ Len(rbuf) = 4) =>
          /\ rres = Ok("Git", ResponderEnd(sid))
          /\ rbuf \o rread \o wire = sent
          /\ rread = SubSeq(sent, 5, 4 + Len(rread))
    /\ (rpc = "done" /\ Len(rbuf) < 4) =>
          /\ ~rres.ok /\ rres.stream = ResponderEnd(sid)
          /\ rres.source.kind \in {"Timeout", "Io"}
          /\ rread = <<>>

C19_Witness ==
    /\ ReturnedSome /\ napp = 2
    /\ rres = Ok("Git", ResponderEnd(sid))
    /\ Len(rread) = 2 /\ wire = <<>>

\* C19 as stated: whenever open_stream has returned a stream, a responder
\* running with_upgraded on the other end resolves to Git.
C19_AlwaysGit ==
    (ReturnedSome /\ rpc = "done") => (rres.ok /\ rres.tag = "Git")

\* C20: tick handles the tocks in the order submitted and one at a time:
\* the log of handler starts and completions is start 1, end 1, start 2,
\* end 2, ... with the i-th tock in the i-th pair; a handler is running only
\* between its start and its end; when tick has returned every tock was
\* handled once; each handler got a clone holding the limiters of the state
\* tick was called on.
C20_TickOrder ==
    /\ \A k \in DOMAIN tlog :
          /\ tlog[k].i = (k + 1) \div 2
          /\ tlog[k].ev = (IF k % 2 = 1 THEN "start" ELSE "end")
          /\ tlog[k].tock = tocks[(k + 1) \div 2]
    /\ Len(tlog) <= 2 * Len(tocks)
    /\ trunning # 0 <=> Len(tlog) % 2 = 1
    /\ trunning # 0 => tlog[Len(tlog)] = Ev("start", trunning)
    /\ (tnext = Len(tocks) + 2 /\ trunning = 0) => Len(tlog) = 2 * Len(tocks)
    /\ Len(tstates) = (Len(tlog) + 1) \div 2
    /\ \A k \in DOMAIN tstates : tstates[k] = handles[1]
    /\ heap = Heap_new

C20_Witness ==
    /\ tocks = <<"Disconnect", "SendConnected", "AttemptSend">>
    /\ tnext = 5 /\ trunning = 0 /\ Len(tlog) = 6 /\ Len(tstates) = 3

\* the calls the inner storage would have received had each call made on
\* the Storage been passed on once when it began
Forwarded ==
    [i \in 1..Len(asked) |-> InnerCall(asked[i].name, asked[i].args)]

\* C21: put and ask (and get) pass every call on to the inner storage
\* exactly once, with the same arguments and in the order the calls began,
\* and a call returns when the inner storage answers it and returns that
\* answer unchanged; they leave the rate limiters alone, also when a breach
\* was just reported, and a limit check makes no call on the inner storage.
C21_Transparent ==
    /\ [](/\ [i \in DOMAIN inner |-> InnerCall(inner[i].name, inner[i].args)] = Forwarded
          /\ \A i \in DOMAIN inner :
                /\ inner[i].by = i
                /\ inner[i].answered <=> inner[i].by \notin Awaiting
          /\ \A k \in DOMAIN served :
                /\ served[k].call \in DOMAIN inner
                /\ inner[served[k].call].answered
                /\ inner[served[k].call].answer = served[k].ret
          /\ \A k, l \in DOMAIN served : served[k].call = served[l].call => k = l)
    /\ [][/\ (asked' # asked \/ served' # served) =>
                UNCHANGED <<errorsTat, wantsTat, crowd, ncalls, lastLim, calling>>
          /\ (ncalls' # ncalls \/ calling' # calling) =>
                UNCHANGED <<inner, asked, served>>]_vars

\* a put began right after a breach was reported and is not answered yet;
\* an ask that began after it was answered and has returned
C21_Witness ==
    /\ Len(asked) = 2 /\ Len(inner) = 2
    /\ asked[1].name = "put" /\ asked[1].limited
    /\ asked[2].name = "ask" /\ asked[2].limited
    /\ ~inner[1].answered
    /\ served = << [call |-> 2, ret |-> TRUE] >>

\* C22: view() of a new thread returns Live(a) for the value a it was made
\* from, and in every reachable thread view() right after root() returns the
\* root item.
C22_ViewRoot ==
    /\ \A a \in Values : view(new(a)) = Ret(new(a), "Ok", Live(a))
    /\ view(root(thread).thread) = Ret(root(thread).thread, "Ok", thread.root)
    /\ tres.op = "root" => view(thread) = Ret(thread, "Ok", thread.root)

\* root() was called on a thread with replies whose root had been edited
C22_Witness ==
    /\ tres.op = "root"
    /\ Len(thread.main_thread) = 2
    /\ thread.root = Live("b")
    /\ thread.main_thread[1][1] = Live("a")
    /\ view(thread).val = Live("b")

\* C23: delete() with the finger on the root returns Err(DeleteFirstMain)
\* and leaves the thread as it was; the root item is Live in every
\* reachable thread.
C23_RootUndeletable ==
    /\ thread.root.status = "Live"
    /\ thread.finger.kind = "Root" => delete(thread) = Ret(thread, "DeleteFirstMain", NoVal)
    /\ tres.op = "delete" /\ tres.res = "DeleteFirstMain" => thread.finger.kind = "Root"

\* delete() was refused on the root of a thread that has replies
C23_Witness ==
    /\ tres.op = "delete" /\ tres.res = "DeleteFirstMain"
    /\ thread.main_thread # << >>
    /\ thread.root.status = "Live"

\* C24: after reply(a, r), for both values of r and from every finger
\* position, view() returns Live(a).
C24_ReplyThenView ==
    /\ \A a \in Values, r \in ReplyTo :
          LET replied == reply(thread, a, r)
          IN  /\ replied.res = "Ok"
              /\ view(replied.thread) = Ret(replied.thread, "Ok", Live(a))
    /\ tres.op = "reply" => view(thread).res = "Ok" /\ live(view(thread).val)

\* a second reply was added to a reply thread, after a first one with
\* another value
C24_Witness ==
    /\ tres.op = "reply" /\ tres.reply_to = "Thread"
    /\ thread.finger = Finger_Thread(0, 2)
    /\ thread.main_thread[1][2] = Live("a")
    /\ view(thread).val = Live("b")

\* the items of a thread other than the one at (main_ix, replies_ix)
OtherItems(t, main_ix, replies_ix) ==
    { <<i, j>> \in (1..Len(t.main_thread)) \X (1..MaxItems + 1) :
        j <= Len(t.main_thread[i]) /\ <<i, j>> # <<main_ix + 1, replies_ix + 1>> }

\* C25: delete() with the finger on an item other than the root succeeds,
\* turns that item into Dead with the value it had, leaves the finger, the
\* root, the number of items and every other item as they were, and view()
\* then returns Dead(v) for the value v it showed before.
C25_DeleteMarksDead ==
    /\ in_bounds(thread) /\ thread.finger.kind # "Root" =>
          LET d == delete(thread)
              f == thread.finger
          IN  /\ d.res = "Ok"
              /\ d.thread.finger = f
              /\ d.thread.root = thread.root
              /\ Len(d.thread.main_thread) = Len(thread.main_thread)
              /\ \A i \in 1..Len(thread.main_thread) :
                    Len(d.thread.main_thread[i]) = Len(thread.main_thread[i])
              /\ \A p \in OtherItems(thread, f.main_ix, f.replies_ix) :
                    d.thread.main_thread[p[1]][p[2]] = thread.main_thread[p[1]][p[2]]
              /\ view(d.thread) = Ret(d.thread, "Ok", Dead(get(view(thread).val)))
    /\ tres.op = "delete" /\ tres.res = "Ok" =>
          view(thread).res = "Ok" /\ ~live(view(thread).val)

\* a reply was deleted in a thread whose other items are Live
C25_Witness ==
    /\ tres.op = "delete" /\ tres.res = "Ok"
    /\ thread.finger = Finger_Thread(0, 1)
    /\ thread.main_thread = << << Live("a"), Dead("b"), Live("b") >> >>

\* whether the thread has no Dead item
no_dead(t) == pruned(t.main_thread) = t.main_thread

\* C26: reply(a, Main) followed by delete() and prune leaves the thread
\* before the reply without its Dead items: the test property returns
\* Ok(true) exactly on the threads that hold no Dead item, and Ok(false) on
\* the others.
C26_NoopUpToPrune ==
    /\ \A a \in Values :
          LET r == prop_deleting_a_replied_comment_is_noop(thread, a)
          IN  /\ r.res = "Ok"
              /\ r.thread.main_thread = pruned(thread.main_thread)
              /\ r.val = no_dead(thread)
    /\ tres.op = "prop_deleting_a_replied_comment_is_noop" =>
          tres.res = "Ok" /\ no_dead(thread)

\* the property was run on a thread with Live replies only and returned true
C26_Witness ==
    /\ tres.op = "prop_deleting_a_replied_comment_is_noop"
    /\ tres.val = TRUE
    /\ Len(thread.main_thread) = 2
    /\ Len(thread.main_thread[1]) = 2

\* C26 as stated: on every thread, reply(a, Main), delete() and prune leave
\* a thread equal to the thread before the reply (the test property returns
\* Ok(true)).
C26_DeleteReplyIsNoop ==
    /\ \A a \in Values :
          prop_deleting_a_replied_comment_is_noop(thread, a).res = "Ok"
          /\ prop_deleting_a_replied_comment_is_noop(thread, a).val = TRUE
    /\ tres.op = "prop_deleting_a_replied_comment_is_noop" =>
          tres.res = "Ok" /\ tres.val = TRUE

\* C27: Thread::new(a) followed by edit(f) equals Thread::new(f(a)), and
\* view() returns Live(f(a)) on both.
C27_NewThenEdit ==
    /\ \A a \in Values, f \in EditFns :
          LET lhs == edit(new(a), f)
              rhs == new(f[a])
          IN  /\ lhs.res = "Ok"
              /\ eq(lhs.thread, rhs)
              /\ view(lhs.thread).res = "Ok" /\ view(lhs.thread).val = Live(f[a])
              /\ view(rhs).res = "Ok" /\ view(rhs).val = Live(f[a])
    /\ thread = new(get(thread.root)) =>
          \A f \in EditFns :
              /\ eq(edit(thread, f).thread, new(f[get(thread.root)]))
              /\ view(edit(thread, f).thread).val = Live(f[get(thread.root)])

\* the root of a new thread was edited and holds another value than before
C27_Witness ==
    /\ tres.op = "edit"
    /\ thread = new("a")

\* the thread with its finger on the main-thread item main_ix
at_main(t, main_ix) == [t EXCEPT !.finger = Finger_Main(main_ix)]

\* C28: with the finger on the first reply to a main-thread item,
\* previous_reply(Thread) succeeds, view() then returns that main-thread
\* item, and the calls that follow return what they return with the finger
\* on the main-thread item.
C28_BackToMainItem ==
    thread.finger.kind = "Thread" /\ thread.finger.replies_ix = 1 /\ in_bounds(thread) =>
        LET p == previous_reply(thread, "Thread")
            m == at_main(thread, thread.finger.main_ix)
        IN  /\ p.res = "Ok"
            /\ view(p.thread).val = Replies_first(index_main(thread, thread.finger.main_ix))
            /\ \A r \in ReplyTo :
                  /\ previous_reply(p.thread, r).res = previous_reply(m, r).res
                  /\ view(previous_reply(p.thread, r).thread).val
                        = view(previous_reply(m, r).thread).val

\* C29: previous_reply returns Err(PreviousMainOutOfBounds) with the finger
\* at the start of the main thread, Err(PreviousThreadOnMain) when given
\* ReplyTo::Thread with the finger on a main-thread item, and otherwise Ok
\* with the finger moved.
C29_PreviousErrors ==
    \A r \in ReplyTo :
        LET p == previous_reply(thread, r) IN
        IF thread.finger.kind = "Root" THEN p.res = "PreviousMainOutOfBounds"
        ELSE IF thread.finger.kind = "Main" /\ r = "Thread" THEN p.res = "PreviousThreadOnMain"
        ELSE p.res = "Ok" /\ p.thread.finger # thread.finger

\* whether the finger is at the end of the main thread
at_end(t) ==
    \/ t.finger.kind = "Root" /\ t.main_thread = << >>
    \/ t.finger.kind # "Root" /\ t.finger.main_ix = Len(t.main_thread) - 1

\* C30: with the finger at the end of the main thread, also on a thread
\* without replies, next_reply(Main) returns Err(NextMainOutOfBounds) in
\* every build: it does not panic.
C30_NextAtEnd ==
    at_end(thread) =>
        \A overflow_checks \in BOOLEAN :
            next_reply(thread, "Main", overflow_checks)
                = Ret(thread, "NextMainOutOfBounds", NoVal)

\* whether a reply follows the finger's position under its main-thread item
has_next_reply(t) ==
    IF t.finger.kind = "Main" THEN Replies_len(index_main(t, t.finger.main_ix)) > 1
    ELSE t.finger.replies_ix + 1 < Replies_len(index_main(t, t.finger.main_ix))

\* C31: with the finger on a main-thread item or on one of its replies,
\* next_reply(Thread) returns Err(NextRepliesOutOfBound) and stays when no
\* reply follows (on the last reply, or on a main-thread item without
\* replies), and otherwise moves the finger to the next reply, which exists.
C31_NextReplyErrors ==
    thread.finger.kind # "Root" /\ in_bounds(thread) =>
        \A overflow_checks \in BOOLEAN :
            LET n == next_reply(thread, "Thread", overflow_checks) IN
            IF has_next_reply(thread)
            THEN /\ n.res = "Ok"
                 /\ n.thread.finger = Finger_Thread(thread.finger.main_ix,
                                                    thread.finger.replies_ix + 1)
                 /\ in_bounds(n.thread)
            ELSE n = Ret(thread, "NextRepliesOutOfBound", NoVal)

\* C33: after every sequence of public operations that returned normally the
\* finger designates an existing item, and view, delete, edit and expand
\* do not panic.
C33_CursorValid ==
    /\ tres.res # "panic" => in_bounds(thread)
    /\ tres.op \in {"view", "delete", "edit", "expand"} => tres.res # "panic"

\* a limiter checked alone, n0 times in second 0 and then n1 times in
\* second 1: its state, the outcome of the last check and the checks admitted
RECURSIVE alone(_, _, _)
alone(g, n0, n1) ==
    IF n0 + n1 = 0 THEN [tat |-> 0, is_err |-> FALSE, admitted |-> 0]
    ELSE LET before == IF n1 > 0 THEN alone(g, n0, n1 - 1) ELSE alone(g, n0 - 1, 0)
             c == test_and_update(g, before.tat, IF n1 > 0 THEN 1 ELSE 0)
         IN  [tat |-> c.next, is_err |-> c.is_err,
              admitted |-> before.admitted + (IF c.is_err THEN 0 ELSE 1)]

\* the limit k checked alone as often and when it was checked here
AloneHere(g, k) == alone(g, atZero[k], ncalls[k] - atZero[k])

\* C32: a check of Errors changes the errors limiter only and a check of
\* Wants the wants limiter only, and every check of either limit has the
\* outcome it would have had if the other limit had never been checked.
C32_Independent ==
    /\ [](LET e == AloneHere(Gcra(quota.errors), "Errors")
              w == AloneHere(Gcra(quota.wants), "P")
          IN  /\ errorsTat = e.tat /\ nadmit["Errors"] = e.admitted
              /\ entry(wantsTat, "P") = w.tat /\ nadmit["P"] = w.admitted
              /\ lastLim.lim = "Errors" => lastLim.breached = e.is_err
              /\ lastLim.lim = "Wants" => lastLim.breached = w.is_err)
    /\ [][/\ ncalls'["Errors"] # ncalls["Errors"] => UNCHANGED <<wantsTat, crowd, calling>>
          /\ (ncalls'["P"] # ncalls["P"] \/ calling' # calling) => UNCHANGED errorsTat]_vars

\* the errors limit was exhausted and a Wants check was then admitted in the
\* same second; the wants limit was exhausted as well
C32_Witness ==
    /\ ncalls["Errors"] > nadmit["Errors"]
    /\ ncalls["P"] > nadmit["P"]
    /\ nadmit["P"] = 2
    /\ lastLim.lim = "Wants" /\ ~lastLim.breached /\ lastLim.at = 1
    /\ atZero["Errors"] = ncalls["Errors"]

\* the tasks that found no connection for the peer when they called
FoundNone ==
    { elog[i].task : i \in { k \in DOMAIN elog :
          elog[k].call = "get_connection" /\ elog[k].arg = <<"None">> } }

\* the calls of that name made by those tasks
CallsOf(name, among) ==
    Cardinality({ k \in DOMAIN elog : elog[k].call = name /\ elog[k].task \in among })

\* C34: the open_stream calls that found no connection for the peer call
\* connect at most once between them and spawn at most one ingress consumer.
C34_OneConnection ==
    /\ CallsOf("connect", FoundNone) <= 1
    /\ CallsOf("spawn", FoundNone) <= 1
====
